---- MODULE Spec2Model ----
(***************************************************************************)
(* Model of the WS2812B LED driver of the BornHack 2024 badge              *)
(* (libs/bhbadge2024/src/ws2812b.rs): the frame buffer behind a            *)
(* critical-section mutex, the activation signal, the render task          *)
(* (handler) and the pulse-code encoder.                                   *)
(***************************************************************************)
EXTENDS Integers, Sequences, FiniteSets, TLC

(***************************************************************************)
(* Program constants.                                                      *)
(***************************************************************************)
PIXEL_COUNT == 16

\* Number of u32 slots of one row of PulseCodeArray.
ROW_LEN == 25

\* Pixel indices and the channel positions of one stored pixel.
Pixels == 0 .. (PIXEL_COUNT - 1)

\* esp_hal PulseCode -> u32: length1 | level1 << 15 | length2 << 16 | level2 << 31
\* (levels are 0 or 1; level2 is false for both codes, so the value fits 31 bits).
PulseCodeToU32(level1, length1, level2, length2) ==
    length1 + level1 * 32768 + length2 * 65536 + level2 * 32768 * 65536

ZERO_BITS == PulseCodeToU32(1, 20, 0, 80)

ONE_BITS == PulseCodeToU32(1, 70, 0, 30)

(***************************************************************************)
(* f32 arithmetic of `((byte as f32) * correction).round() as u8`.         *)
(* An f32 is a pair <<m, e>> with value m * 2^e and m < 2^24 (m = 2^24 is  *)
(* kept un-normalised after a carry; it is the same value).                *)
(***************************************************************************)
Pow2(n) == 2 ^ n

RECURSIVE BitLen(_)
BitLen(n) == IF n = 0 THEN 0 ELSE 1 + BitLen(n \div 2)

\* Round the integer q * 2^s + rem (0 <= rem < 2^s) to a multiple of 2^s,
\* ties to even: the IEEE-754 default rounding.
RoundNearestEven(q, rem, s) ==
    IF s = 0 THEN q
    ELSE LET half == Pow2(s - 1)
         IN  IF rem > half \/ (rem = half /\ q % 2 = 1) THEN q + 1 ELSE q

\* (byte as f32) * correction: the exact product byte * m, rounded to 24 bits.
\* The product needs up to 32 bits, so it is kept as hi * 256 + lo.
F32MulByte(byte, c) ==
    LET m  == c[1]
        mh == m \div 256
        ml == m % 256
        hi == byte * mh + (byte * ml) \div 256
        lo == (byte * ml) % 256
        s  == IF BitLen(hi) > 16 THEN BitLen(hi) - 16 ELSE 0
        q  == hi * Pow2(8 - s) + lo \div Pow2(s)
        r  == lo % Pow2(s)
    IN  <<RoundNearestEven(q, r, s), c[2] + s>>

\* x + 0.5 in f32, for 0 <= x < 256 (so the exponent of x is negative).
F32AddHalf(x) ==
    LET sum == x[1] + Pow2((0 - x[2]) - 1)
        s   == IF BitLen(sum) > 24 THEN BitLen(sum) - 24 ELSE 0
    IN  <<RoundNearestEven(sum \div Pow2(s), sum % Pow2(s), s), x[2] + s>>

\* micromath F32Ext::round for x >= 0: ((x + 0.5) as i32) as f32.
F32Round(x) ==
    LET y == F32AddHalf(x)
    IN  y[1] \div Pow2(0 - y[2])

\* `as u8` on a non-negative float saturates at 255.
AsU8(v) == IF v > 255 THEN 255 ELSE v

\* (mutant) the corrections without the factor 0.3: 177/256, 1.0, 241/256.
CORRECTIONS_nodim == << <<11599872, -24>>, <<8388608, -23>>, <<15794176, -24>> >>

\* The three corrections, in stored (G, R, B) order, as f32 values:
\* 0.3 * 177.0 / 256.0, 0.3 * 256.0 / 256.0, 0.3 * 241.0 / 256.0.
CORRECTIONS == << <<13919847, -26>>, <<10066330, -25>>, <<9476506, -25>> >>

\* (mutant) the byte is encoded as it is, without the correction.
CorrectedByte_uncorrected(byte, correction) == byte

\* (mutant) the product is converted without round(): `as u8` truncates.
CorrectedByte_trunc(byte, correction) ==
    LET x == F32MulByte(byte, correction)
    IN  AsU8(x[1] \div Pow2(0 - x[2]))

\* let byte = ((byte as f32) * correction).round() as u8;
CorrectedByte(byte, correction) == AsU8(F32Round(F32MulByte(byte, correction)))

\* The loop of write_pulse_codes: test the top bit, shift left, 8 times.  The
\* u32 `byte << 24` has its low 24 bits zero throughout, so the register is
\* kept as its top 8 bits (mod 256) and the tested bit 0x80000000 is 128.
RECURSIVE PulseLoop(_, _)
PulseLoop(reg, n) ==
    IF n = 0 THEN <<>>
    ELSE <<(IF (reg \div 128) % 2 = 0 THEN ZERO_BITS ELSE ONE_BITS)>>
         \o PulseLoop((reg * 2) % 256, n - 1)

\* (mutant) the two pulse codes are exchanged: a clear bit is written as
\* ONE_BITS and a set bit as ZERO_BITS.
write_pulse_codes_swapped(byte, correction) ==
    PulseLoop(255 - CorrectedByte(byte, correction), 8)

write_pulse_codes(byte, correction) == PulseLoop(CorrectedByte(byte, correction), 8)


\* write_pulse_codes(b, _, CORRECTIONS[c]) for every byte b and each of the
\* three corrections c, tabulated.
PulseCodesOf == [c \in 1 .. 3 |-> [b \in 0 .. 255 |->
                    write_pulse_codes(b, CORRECTIONS[c])]]

\* (mutant) the encoder also writes the last slot of the row.
EncodeRow_fill_end(pixel, old_row) ==
    PulseCodesOf[1][pixel[1]]
    \o PulseCodesOf[2][pixel[2]]
    \o PulseCodesOf[3][pixel[3]]
    \o <<ZERO_BITS>>

\* (mutant) the bytes of a pixel are encoded in (r, g, b) order.
EncodeRow_rgb(pixel, old_row) ==
    PulseCodesOf[1][pixel[2]]
    \o PulseCodesOf[2][pixel[1]]
    \o PulseCodesOf[3][pixel[3]]
    \o <<old_row[ROW_LEN]>>

\* One row of PulseCodeArray after the inner loop of the handler: the three
\* stored bytes of a pixel go through write_pulse_codes, each with its
\* correction, into slots 0..23 (chunks_exact_mut(8) zipped with the 3 bytes
\* yields exactly three chunks); slot 24 is not written.
EncodeRow(pixel, old_row) ==
    PulseCodesOf[1][pixel[1]]
    \o PulseCodesOf[2][pixel[2]]
    \o PulseCodesOf[3][pixel[3]]
    \o <<old_row[ROW_LEN]>>

\* The outer loop of the handler over frame_buffer.iter().zip(pulsecodes.iter_mut()).
EncodeFrame(frame, old_codes) ==
    [i \in Pixels |-> EncodeRow(frame[i], old_codes[i])]

(***************************************************************************)
(* Bounds of the model and the inputs of the producers.                    *)
(***************************************************************************)
\* Number of producer tasks holding a copy of the Ws2812b handle.
NumProducers == 2

\* Total number of with_frame_buffer / set_pixel calls made in one behaviour.
MaxCalls == 2

Producers == 1 .. NumProducers

\* Colours (r, g, b) the producers write.
RED == <<255, 0, 0>>

BLUE == <<40, 100, 255>>

BLACK == <<0, 0, 0>>

\* A closure is the sequence of operations it makes on the FrameBuffer:
\* <<"set_pixel", index, rgb>> or <<"fill", 0, rgb>> (a whole-frame store
\* through raw_mut()).  Ws2812b::set_pixel(index, rgb) is the call whose
\* closure is the single operation <<"set_pixel", index, rgb>>.
SetPixelOps(index, rgb) == << <<"set_pixel", index, rgb>> >>

IsSetPixel(ops) == Len(ops) = 1 /\ ops[1][1] = "set_pixel"

\* The closures the producers pass: set_pixel on overlapping and disjoint
\* indices, an index out of range, a closure that only reads (QueryColors),
\* a closure writing two pixels and one writing all 16.
Closures ==
    { SetPixelOps(0, RED), SetPixelOps(0, BLUE), SetPixelOps(15, BLUE),
      SetPixelOps(PIXEL_COUNT, RED),
      <<>>,
      << <<"set_pixel", 0, BLUE>>, <<"set_pixel", 15, RED>> >>,
      << <<"fill", 0, BLACK>> >> }

\* Tasks of the one executor that hold a copy of the SharedI2c handle, and
\* the number of calls they make.
NumI2cTasks == 2

MaxI2cCalls == 3

I2cTasks == 1 .. NumI2cTasks

\* Rows whose transmission the transmitter may report as failed.
FaultChunks == { 0, 4 }

(***************************************************************************)
(* State.                                                                  *)
(***************************************************************************)
VARIABLES
    taken,              \* STATE / PULSECODES have been taken by Ws2812b::new
    m_pc,               \* position of the task that calls Ws2812b::new
    frame_buffer,       \* the [[u8; 3]; PIXEL_COUNT] inside the RefCell
    borrow,             \* RefCell borrow flag: 0 free, -1 mutable, n > 0 shared
    cs,                 \* holder of the critical section ("none" when free)
    activation_signal,  \* Signal state: "None", "Waiting" or "Signaled"
    pulsecodes,         \* PulseCodeArray
    h_pc,               \* position of the handler task
    h_i,                \* index of the row the transmit loop is at
    rmt_ram,            \* the data last handed to channel.transmit
    rmt_busy,           \* number of transmissions in flight
    panicked,           \* a panic has halted the firmware
    p_pc,               \* position of each producer
    p_ops,              \* the closure each producer is running
    p_k,                \* index of the set_pixel of the closure being run
    p_ch,               \* channel store of that set_pixel being run (1..3)
    calls,              \* number of producer calls started
    \* history variables
    snapshot,           \* frame read by the latest encode
    committed,          \* frame as of the end of the latest closure
    version,            \* number of closures that have ended
    snap_version,       \* version read by the latest encode
    rendered,           \* snap_version of the latest completed pass
    notified,           \* highest version whose call has returned
    p_ver,              \* version produced by each producer's closure
    p_single,           \* the closure each producer ran was one set_pixel
    p_nraise,           \* raises made by each producer's current call
    raised,             \* number of signal() calls
    renders,            \* number of returns of wait()
    wakes,              \* number of signal() calls not preceded by another
                        \* since the last return of wait()
    since,              \* number of signal() calls since the last return of wait()
    wait_calls,         \* set_pixel calls completed during the current wait
    batch,              \* wait_calls at the latest return of wait()
    wake_ver,           \* notified at the latest return of wait()
    sent,               \* indices of the rows submitted in the current pass
    faults,             \* number of transmissions that ended with Err(_)
    spawned,            \* number of handler tasks spawned by Ws2812b::new
    \* a call of write_pulse_codes taken on its own
    w_pc,               \* "idle" before the call, "done" after it
    w_byte,             \* its argument byte
    w_correction,       \* its argument correction
    w_out,              \* the 8 slots of its argument out
    \* the applications that drive the device
    app,                \* the binary that runs: "diodes" or "feature-creep"
    d_i,                \* diodes: the index i of the main loop
    ws_pc,              \* feature-creep: position of WebsocketHandler::run
    ws_msg,             \* feature-creep: the frame received last
    ws_res,             \* feature-creep: res of the latest QueryColors
    last_rgb,           \* rgb of the latest set_pixel of each slot
    issued,             \* indices the applications passed to set_pixel
    app_n,              \* number of steps the application has taken
    \* SharedI2c
    i2c_locked,         \* State::locked of the async Mutex around the I2C
    i2c_waker,          \* the task whose waker the Mutex holds (0 for none)
    t_pc,               \* position of each task using a copy of the handle
    t_op,               \* the method each task has called
    bus_active,         \* tasks with a transaction in progress on the bus
    bus_log,            \* the phases the bus has carried, in order
    i2c_calls           \* number of SharedI2c calls started

prog_vars == <<taken, m_pc, frame_buffer, borrow, cs, activation_signal,
               pulsecodes, h_pc, h_i, rmt_ram, rmt_busy, panicked,
               p_pc, p_ops, p_k, p_ch, calls>>

hist_vars == <<snapshot, committed, version, snap_version, rendered, notified,
               p_ver, p_single, p_nraise, raised, renders, wakes, since, wait_calls,
               batch, wake_ver, sent, faults, spawned>>

enc_vars == <<w_pc, w_byte, w_correction, w_out>>

i2c_vars == <<i2c_locked, i2c_waker, t_pc, t_op, bus_active, bus_log, i2c_calls>>

app_vars == <<app, d_i, ws_pc, ws_msg, ws_res, last_rgb, issued, app_n>>

vars == <<prog_vars, hist_vars, enc_vars, app_vars, i2c_vars>>

\* Identities of the tasks, as held in cs.
NoTask == <<"none", 0>>

HandlerTask == <<"handler", 0>>

ProducerTask(p) == <<"producer", p>>

MainTask == <<"main", 0>>

ZeroFrame == [i \in Pixels |-> <<0, 0, 0>>]

ZeroCodes == [i \in Pixels |-> [n \in 1 .. ROW_LEN |-> 0]]

\* The state after the statics are initialised, before Ws2812b::new runs;
\* SharedI2c::new has put the I2C behind its unlocked Mutex.
SysInit ==
    /\ taken = FALSE
    /\ m_pc = "start"
    /\ frame_buffer = ZeroFrame
    /\ borrow = 0
    /\ cs = NoTask
    /\ activation_signal = "None"
    /\ pulsecodes = ZeroCodes
    /\ h_pc = "unspawned"
    /\ h_i = 0
    /\ rmt_ram = <<>>
    /\ rmt_busy = 0
    /\ panicked = FALSE
    /\ p_pc = [p \in Producers |-> "idle"]
    /\ p_ops = [p \in Producers |-> <<>>]
    /\ p_k = [p \in Producers |-> 1]
    /\ p_ch = [p \in Producers |-> 1]
    /\ calls = 0
    /\ snapshot = ZeroFrame
    /\ committed = ZeroFrame
    /\ version = 0
    /\ snap_version = 0
    /\ rendered = 0
    /\ notified = 0
    /\ p_ver = [p \in Producers |-> 0]
    /\ p_single = [p \in Producers |-> FALSE]
    /\ p_nraise = [p \in Producers |-> 0]
    /\ raised = 0
    /\ renders = 0
    /\ wakes = 0
    /\ since = 0
    /\ wait_calls = 0
    /\ batch = 0
    /\ wake_ver = 0
    /\ sent = <<>>
    /\ faults = 0
    /\ spawned = 0
    /\ i2c_locked = FALSE
    /\ i2c_waker = 0
    /\ t_pc = [t \in I2cTasks |-> "idle"]
    /\ t_op = [t \in I2cTasks |-> "none"]
    /\ bus_active = {}
    /\ bus_log = <<>>
    /\ i2c_calls = 0

\* The application state before any application step: the main loop of
\* diodes at i = 0, the websocket handler waiting for a frame.
AppStart ==
    /\ d_i = 0
    /\ ws_pc = "next"
    /\ ws_msg = <<>>
    /\ ws_res = [i \in Pixels |-> <<0, 0, 0>>]
    /\ last_rgb = [i \in Pixels |-> <<0, 0, 0>>]
    /\ issued = {}
    /\ app_n = 0

Init ==
    /\ SysInit
    /\ app = "none"
    /\ AppStart
    /\ w_pc = "idle"
    /\ w_byte = 0
    /\ w_correction = CORRECTIONS[1]
    /\ w_out = <<>>


(***************************************************************************)
(* Tasks.  The frame buffer mutex and the signal both use                  *)
(* CriticalSectionRawMutex: lock() runs its closure inside the global      *)
(* critical section, during which no other task takes a step.              *)
(***************************************************************************)
\* A task other than the holder of the critical section cannot run.
CanRun(task) == ~panicked /\ cs \in {NoTask, task}

\* critical_section acquire, as used by Mutex::lock and Signal.
CanEnter(task) == ~panicked /\ cs = NoTask

(***************************************************************************)
(* The activation signal (Signal<CriticalSectionRawMutex, ()>).            *)
(***************************************************************************)
\* (mutant) signal() only has an effect when a waker is stored.
signal_state_if_waiting(s) == IF s = "Waiting" THEN "Signaled" ELSE s

\* (mutant) signal() toggles the state instead of setting it.
signal_state_toggle(s) == IF s = "Signaled" THEN "None" ELSE "Signaled"

\* Signal::signal replaces the state by Signaled(()), whatever it was.
signal_state(s) == "Signaled"

\* ... and wakes the stored waker when the state was Waiting.
signal_wakes(s) == s = "Waiting"

\* activation_signal.signal(()), with its bookkeeping.
Raise ==
    /\ activation_signal' = signal_state(activation_signal)
    /\ h_pc' = IF signal_wakes(activation_signal) /\ h_pc = "parked"
               THEN "wait" ELSE h_pc
    /\ raised' = raised + 1
    /\ since' = since + 1
    /\ wakes' = IF since = 0 THEN wakes + 1 ELSE wakes

(***************************************************************************)
(* Ws2812b::new.                                                           *)
(***************************************************************************)
\* (mutant) the statics can be taken again: every call spawns a handler.
New_spawn_retake ==
    /\ CanEnter(MainTask)
    /\ m_pc = "start"
    /\ taken' = TRUE
    /\ h_pc' = "wait"
    /\ m_pc' = "signal"
    /\ spawned' = spawned + 1
    /\ UNCHANGED panicked
    /\ UNCHANGED <<frame_buffer, borrow, cs, activation_signal, pulsecodes,
                   h_i, rmt_ram, rmt_busy, p_pc, p_ops, p_k, p_ch, calls,
                   snapshot, committed, version, snap_version, rendered,
                   notified, p_ver, p_single, p_nraise, raised, renders,
                   wakes, since, wait_calls, batch, wake_ver, sent,
                   faults, enc_vars, app_vars, i2c_vars>>

\* STATE.take(), PULSECODES.take() (a ConstStaticCell panics when taken twice),
\* channel configuration and spawner.spawn(handler(..)).
New_spawn ==
    /\ CanEnter(MainTask)
    /\ m_pc = "start"
    /\ IF taken
       THEN panicked' = TRUE /\ UNCHANGED <<taken, h_pc, m_pc, spawned>>
       ELSE /\ taken' = TRUE
            /\ h_pc' = "wait"
            /\ m_pc' = "signal"
            /\ spawned' = spawned + 1
            /\ UNCHANGED panicked
    /\ UNCHANGED <<frame_buffer, borrow, cs, activation_signal, pulsecodes,
                   h_i, rmt_ram, rmt_busy, p_pc, p_ops, p_k, p_ch, calls,
                   snapshot, committed, version, snap_version, rendered,
                   notified, p_ver, p_single, p_nraise, raised, renders,
                   wakes, since, wait_calls, batch, wake_ver, sent,
                   faults, enc_vars, app_vars, i2c_vars>>

\* (mutant) Ws2812b::new returns without signalling.
New_signal_no_raise ==
    /\ CanEnter(MainTask)
    /\ m_pc = "signal"
    /\ m_pc' = "done"
    /\ UNCHANGED <<taken, activation_signal, h_pc, raised, since, wakes, frame_buffer, borrow, cs, pulsecodes, h_i, rmt_ram,
                   rmt_busy, panicked, p_pc, p_ops, p_k, p_ch, calls,
                   snapshot, committed, version, snap_version, rendered,
                   notified, p_ver, p_single, p_nraise, renders, wait_calls,
                   batch, wake_ver, sent,
                   faults, enc_vars, spawned, app_vars, i2c_vars>>

\* state.activation_signal.signal(()); Self { state }
New_signal ==
    /\ CanEnter(MainTask)
    /\ m_pc = "signal"
    /\ Raise
    /\ m_pc' = "done"
    /\ UNCHANGED <<taken, frame_buffer, borrow, cs, pulsecodes, h_i, rmt_ram,
                   rmt_busy, panicked, p_pc, p_ops, p_k, p_ch, calls,
                   snapshot, committed, version, snap_version, rendered,
                   notified, p_ver, p_single, p_nraise, renders, wait_calls,
                   batch, wake_ver, sent,
                   faults, enc_vars, spawned, app_vars, i2c_vars>>

(***************************************************************************)
(* Producers: Ws2812b::with_frame_buffer and Ws2812b::set_pixel.           *)
(***************************************************************************)
\* (mutant) the closure is run without entering the critical section and
\* without marking the RefCell borrowed.
P_call_unguarded(p, ops) ==
    /\ CanEnter(ProducerTask(p))
    /\ m_pc = "done"
    /\ p_pc[p] \in {"idle", "returned"}
    /\ calls < MaxCalls
    /\ calls' = calls + 1
    /\ p_nraise' = [p_nraise EXCEPT ![p] = 0]
    /\ p_ops' = [p_ops EXCEPT ![p] = ops]
    /\ p_pc' = [p_pc EXCEPT ![p] = "closure"]
    /\ UNCHANGED <<taken, m_pc, frame_buffer, borrow, cs, activation_signal,
                   pulsecodes, h_pc, h_i, rmt_ram, rmt_busy, panicked, p_k,
                   p_ch, snapshot, committed, version, snap_version,
                   rendered, notified, p_ver, p_single, raised, renders,
                   wakes, since, wait_calls, batch, wake_ver, sent,
                   faults, enc_vars, spawned, app_vars, i2c_vars>>

\* A task holding a copy of the handle calls with_frame_buffer(f), where
\* set_pixel(index, rgb) is the call whose closure is one FrameBuffer::set_pixel:
\* self.state.frame_buffer.lock(|frame_buffer| { frame_buffer.borrow_mut() ..
\* enters the critical section; borrow_mut panics when the RefCell is borrowed.
P_call(p, ops) ==
    /\ CanEnter(ProducerTask(p))
    /\ m_pc = "done"
    /\ p_pc[p] \in {"idle", "returned"}
    /\ calls < MaxCalls
    /\ calls' = calls + 1
    /\ p_nraise' = [p_nraise EXCEPT ![p] = 0]
    /\ cs' = ProducerTask(p)
    /\ IF borrow = 0
       THEN /\ borrow' = 0 - 1
            /\ p_ops' = [p_ops EXCEPT ![p] = ops]
            /\ p_pc' = [p_pc EXCEPT ![p] = "closure"]
            /\ UNCHANGED panicked
       ELSE /\ panicked' = TRUE
            /\ UNCHANGED <<borrow, p_ops, p_pc>>
    /\ UNCHANGED <<taken, m_pc, frame_buffer, activation_signal, pulsecodes,
                   h_pc, h_i, rmt_ram, rmt_busy, p_k, p_ch, snapshot,
                   committed, version, snap_version, rendered, notified,
                   p_ver, p_single, raised, renders, wakes, since,
                   wait_calls, batch, wake_ver, sent,
                   faults, enc_vars, spawned, app_vars, i2c_vars>>

\* (mutant) the channels are stored in the caller's (r, g, b) order.
StoredChannel_rgb(rgb, ch) == rgb[ch]

\* The store FrameBuffer::set_pixel makes to channel ch of the stored pixel:
\* pixel[0] = g; pixel[1] = r; pixel[2] = b, with (r, g, b) = rgb.
StoredChannel(rgb, ch) ==
    IF ch = 1 THEN rgb[2] ELSE IF ch = 2 THEN rgb[1] ELSE rgb[3]

\* (mutant) the store also lands in the slot after index.
P_write_spill(p) ==
    /\ CanRun(ProducerTask(p))
    /\ p_pc[p] = "closure"
    /\ p_k[p] <= Len(p_ops[p])
    /\ p_ops[p][p_k[p]][1] = "set_pixel"
    /\ LET index == p_ops[p][p_k[p]][2]
           rgb   == p_ops[p][p_k[p]][3]
       IN  /\ index \in Pixels
           /\ frame_buffer' = [frame_buffer EXCEPT
                                 ![index][p_ch[p]] = StoredChannel(rgb, p_ch[p]),
                                 ![(index + 1) % PIXEL_COUNT][p_ch[p]] =
                                     StoredChannel(rgb, p_ch[p])]
    /\ IF p_ch[p] < 3
       THEN /\ p_ch' = [p_ch EXCEPT ![p] = p_ch[p] + 1]
            /\ UNCHANGED p_k
       ELSE /\ p_ch' = [p_ch EXCEPT ![p] = 1]
            /\ p_k' = [p_k EXCEPT ![p] = p_k[p] + 1]
    /\ UNCHANGED <<taken, m_pc, borrow, cs, activation_signal, pulsecodes,
                   h_pc, h_i, rmt_ram, rmt_busy, panicked, p_pc, p_ops,
                   calls, snapshot, committed, version, snap_version,
                   rendered, notified, p_ver, p_single, p_nraise, raised,
                   renders, wakes, since, wait_calls, batch, wake_ver, sent,
                   faults, enc_vars, spawned, app_vars, i2c_vars>>

\* One store of FrameBuffer::set_pixel(index, rgb) run by the closure.
P_write(p) ==
    /\ CanRun(ProducerTask(p))
    /\ p_pc[p] = "closure"
    /\ p_k[p] <= Len(p_ops[p])
    /\ p_ops[p][p_k[p]][1] = "set_pixel"
    /\ LET index == p_ops[p][p_k[p]][2]
           rgb   == p_ops[p][p_k[p]][3]
       IN  /\ index \in Pixels
           /\ frame_buffer' = [frame_buffer EXCEPT
                                 ![index][p_ch[p]] = StoredChannel(rgb, p_ch[p])]
    /\ IF p_ch[p] < 3
       THEN /\ p_ch' = [p_ch EXCEPT ![p] = p_ch[p] + 1]
            /\ UNCHANGED p_k
       ELSE /\ p_ch' = [p_ch EXCEPT ![p] = 1]
            /\ p_k' = [p_k EXCEPT ![p] = p_k[p] + 1]
    /\ UNCHANGED <<taken, m_pc, borrow, cs, activation_signal, pulsecodes,
                   h_pc, h_i, rmt_ram, rmt_busy, panicked, p_pc, p_ops,
                   calls, snapshot, committed, version, snap_version,
                   rendered, notified, p_ver, p_single, p_nraise, raised,
                   renders, wakes, since, wait_calls, batch, wake_ver, sent,
                   faults, enc_vars, spawned, app_vars, i2c_vars>>

\* The closure stores a whole frame through FrameBuffer::raw_mut():
\* *frame_buffer.raw_mut() = [[g, r, b]; PIXEL_COUNT].
P_fill(p) ==
    /\ CanRun(ProducerTask(p))
    /\ p_pc[p] = "closure"
    /\ p_k[p] <= Len(p_ops[p])
    /\ p_ops[p][p_k[p]][1] = "fill"
    /\ LET rgb == p_ops[p][p_k[p]][3]
       IN  frame_buffer' = [i \in Pixels |->
                              <<StoredChannel(rgb, 1), StoredChannel(rgb, 2),
                                StoredChannel(rgb, 3)>>]
    /\ p_k' = [p_k EXCEPT ![p] = p_k[p] + 1]
    /\ UNCHANGED <<taken, m_pc, borrow, cs, activation_signal, pulsecodes,
                   h_pc, h_i, rmt_ram, rmt_busy, panicked, p_pc, p_ops, p_ch,
                   calls, snapshot, committed, version, snap_version,
                   rendered, notified, p_ver, p_single, p_nraise, raised,
                   renders, wakes, since, wait_calls, batch, wake_ver, sent,
                   faults, enc_vars, spawned, app_vars, i2c_vars>>

\* (mutant) an index out of range is clamped to the last pixel.
P_oob_clamp(p) ==
    /\ CanRun(ProducerTask(p))
    /\ p_pc[p] = "closure"
    /\ p_k[p] <= Len(p_ops[p])
    /\ p_ops[p][p_k[p]][1] = "set_pixel"
    /\ p_ops[p][p_k[p]][2] \notin Pixels
    /\ LET rgb == p_ops[p][p_k[p]][3]
       IN  frame_buffer' = [frame_buffer EXCEPT ![PIXEL_COUNT - 1] =
                              <<StoredChannel(rgb, 1), StoredChannel(rgb, 2),
                                StoredChannel(rgb, 3)>>]
    /\ p_k' = [p_k EXCEPT ![p] = p_k[p] + 1]
    /\ UNCHANGED <<taken, m_pc, borrow, cs, activation_signal, pulsecodes,
                   h_pc, h_i, rmt_ram, rmt_busy, panicked, p_pc, p_ops, p_ch,
                   calls, snapshot, committed, version, snap_version,
                   rendered, notified, p_ver, p_single, p_nraise, raised,
                   renders, wakes, since, wait_calls, batch, wake_ver, sent,
                   faults, enc_vars, spawned, app_vars, i2c_vars>>

\* `&mut self.frame_buffer[index]` with index >= PIXEL_COUNT: the bounds check
\* panics before any store, inside the critical section.
P_oob(p) ==
    /\ CanRun(ProducerTask(p))
    /\ p_pc[p] = "closure"
    /\ p_k[p] <= Len(p_ops[p])
    /\ p_ops[p][p_k[p]][1] = "set_pixel"
    /\ p_ops[p][p_k[p]][2] \notin Pixels
    /\ panicked' = TRUE
    /\ UNCHANGED <<taken, m_pc, frame_buffer, borrow, cs, activation_signal,
                   pulsecodes, h_pc, h_i, rmt_ram, rmt_busy, p_pc, p_ops,
                   p_k, p_ch, calls, snapshot, committed, version,
                   snap_version, rendered, notified, p_ver, p_single,
                   p_nraise, raised, renders, wakes, since, wait_calls,
                   batch, wake_ver, sent,
                   faults, enc_vars, spawned, app_vars, i2c_vars>>

\* The closure (an FnOnce, consumed by the call) returns: the RefMut is dropped
\* and lock() leaves the critical section.
P_unlock(p) ==
    /\ CanRun(ProducerTask(p))
    /\ p_pc[p] = "closure"
    /\ p_k[p] > Len(p_ops[p])
    /\ borrow' = 0
    /\ cs' = NoTask
    /\ p_pc' = [p_pc EXCEPT ![p] = "signal"]
    /\ p_ops' = [p_ops EXCEPT ![p] = <<>>]
    /\ p_k' = [p_k EXCEPT ![p] = 1]
    /\ p_single' = [p_single EXCEPT ![p] = IsSetPixel(p_ops[p])]
    /\ committed' = frame_buffer
    /\ version' = version + 1
    /\ p_ver' = [p_ver EXCEPT ![p] = version + 1]
    /\ UNCHANGED <<taken, m_pc, frame_buffer, activation_signal, pulsecodes,
                   h_pc, h_i, rmt_ram, rmt_busy, panicked, p_ch, calls,
                   snapshot, snap_version, rendered, notified, p_nraise,
                   raised, renders, wakes, since, wait_calls, batch,
                   wake_ver, sent,
                   faults, enc_vars, spawned, app_vars, i2c_vars>>

\* (mutant) only a closure that was a single set_pixel raises the signal.
P_signal_only_set_pixel(p) ==
    /\ CanEnter(ProducerTask(p))
    /\ p_pc[p] = "signal"
    /\ IF p_single[p]
       THEN /\ Raise
            /\ p_nraise' = [p_nraise EXCEPT ![p] = p_nraise[p] + 1]
       ELSE UNCHANGED <<activation_signal, h_pc, raised, since, wakes, p_nraise>>
    /\ p_pc' = [p_pc EXCEPT ![p] = "returned"]
    /\ notified' = IF p_ver[p] > notified THEN p_ver[p] ELSE notified
    /\ p_ver' = [p_ver EXCEPT ![p] = 0]
    /\ wait_calls' = IF h_pc \in {"wait", "parked"} /\ p_single[p]
                     THEN wait_calls + 1 ELSE wait_calls
    /\ p_single' = [p_single EXCEPT ![p] = FALSE]
    /\ UNCHANGED <<taken, m_pc, frame_buffer, borrow, cs, pulsecodes, h_i,
                   rmt_ram, rmt_busy, panicked, p_ops, p_k, p_ch, calls,
                   snapshot, committed, version, snap_version, rendered,
                   renders, batch, wake_ver, sent,
                   faults, enc_vars, spawned, app_vars, i2c_vars>>

\* self.state.activation_signal.signal(()); result
P_signal(p) ==
    /\ CanEnter(ProducerTask(p))
    /\ p_pc[p] = "signal"
    /\ Raise
    /\ p_pc' = [p_pc EXCEPT ![p] = "returned"]
    /\ p_nraise' = [p_nraise EXCEPT ![p] = p_nraise[p] + 1]
    /\ notified' = IF p_ver[p] > notified THEN p_ver[p] ELSE notified
    /\ p_ver' = [p_ver EXCEPT ![p] = 0]
    /\ wait_calls' = IF h_pc \in {"wait", "parked"} /\ p_single[p]
                     THEN wait_calls + 1 ELSE wait_calls
    /\ p_single' = [p_single EXCEPT ![p] = FALSE]
    /\ UNCHANGED <<taken, m_pc, frame_buffer, borrow, cs, pulsecodes, h_i,
                   rmt_ram, rmt_busy, panicked, p_ops, p_k, p_ch, calls,
                   snapshot, committed, version, snap_version, rendered,
                   renders, batch, wake_ver, sent,
                   faults, enc_vars, spawned, app_vars, i2c_vars>>

(***************************************************************************)
(* The render task: handler().                                             *)
(***************************************************************************)
\* (mutant) wait() returns and the staging buffer is transmitted as it is.
H_wait_ready_no_encode ==
    /\ CanEnter(HandlerTask)
    /\ h_pc = "wait"
    /\ activation_signal = "Signaled"
    /\ activation_signal' = "None"
    /\ h_pc' = "transmit"
    /\ h_i' = 0
    /\ renders' = renders + 1
    /\ since' = 0
    /\ batch' = wait_calls
    /\ wake_ver' = notified
    /\ wait_calls' = 0
    /\ sent' = <<>>
    /\ UNCHANGED <<taken, m_pc, frame_buffer, borrow, cs, pulsecodes,
                   rmt_ram, rmt_busy, panicked, p_pc, p_ops, p_k, p_ch,
                   calls, snapshot, committed, version, snap_version,
                   rendered, notified, p_ver, p_single, p_nraise, raised,
                   wakes,
                   faults, enc_vars, spawned, app_vars, i2c_vars>>

\* activation_signal.wait().await polled with the state Signaled: the state is
\* reset to None and wait() returns.
H_wait_ready ==
    /\ CanEnter(HandlerTask)
    /\ h_pc = "wait"
    /\ activation_signal = "Signaled"
    /\ activation_signal' = "None"
    /\ h_pc' = "lock"
    /\ renders' = renders + 1
    /\ since' = 0
    /\ batch' = wait_calls
    /\ wake_ver' = notified
    /\ wait_calls' = 0
    /\ sent' = <<>>
    /\ UNCHANGED <<taken, m_pc, frame_buffer, borrow, cs, pulsecodes, h_i,
                   rmt_ram, rmt_busy, panicked, p_pc, p_ops, p_k, p_ch,
                   calls, snapshot, committed, version, snap_version,
                   rendered, notified, p_ver, p_single, p_nraise, raised,
                   wakes,
                   faults, enc_vars, spawned, app_vars, i2c_vars>>

\* (mutant) wait() returns although nothing was signalled.
H_wait_pending_spurious ==
    /\ CanEnter(HandlerTask)
    /\ h_pc = "wait"
    /\ activation_signal # "Signaled"
    /\ h_pc' = "lock"
    /\ renders' = renders + 1
    /\ batch' = wait_calls
    /\ wake_ver' = notified
    /\ wait_calls' = 0
    /\ sent' = <<>>
    /\ UNCHANGED <<taken, m_pc, frame_buffer, borrow, cs, activation_signal,
                   pulsecodes, h_i, rmt_ram, rmt_busy, panicked, p_pc, p_ops,
                   p_k, p_ch, calls, snapshot, committed, version,
                   snap_version, rendered, notified, p_ver, p_single,
                   p_nraise, raised, wakes, since,
                   faults, enc_vars, spawned, app_vars, i2c_vars>>

\* activation_signal.wait().await polled with no signal: the waker is stored
\* and the task is suspended until signal() wakes it.
H_wait_pending ==
    /\ CanEnter(HandlerTask)
    /\ h_pc = "wait"
    /\ activation_signal # "Signaled"
    /\ activation_signal' = "Waiting"
    /\ h_pc' = "parked"
    /\ UNCHANGED <<taken, m_pc, frame_buffer, borrow, cs, pulsecodes, h_i,
                   rmt_ram, rmt_busy, panicked, p_pc, p_ops, p_k, p_ch,
                   calls, snapshot, committed, version, snap_version,
                   rendered, notified, p_ver, p_single, p_nraise, raised,
                   renders, wakes, since, wait_calls, batch, wake_ver, sent,
                   faults, enc_vars, spawned, app_vars, i2c_vars>>

\* frame_buffer.lock(|frame_buffer| { let frame_buffer = frame_buffer.borrow();
\* borrow panics when the RefCell is mutably borrowed.
H_lock ==
    /\ CanEnter(HandlerTask)
    /\ h_pc = "lock"
    /\ cs' = HandlerTask
    /\ IF borrow >= 0
       THEN /\ borrow' = borrow + 1
            /\ h_pc' = "encode"
            /\ UNCHANGED panicked
       ELSE /\ panicked' = TRUE
            /\ UNCHANGED <<borrow, h_pc>>
    /\ UNCHANGED <<taken, m_pc, frame_buffer, activation_signal, pulsecodes,
                   h_i, rmt_ram, rmt_busy, p_pc, p_ops, p_k, p_ch, calls,
                   snapshot, committed, version, snap_version, rendered,
                   notified, p_ver, p_single, p_nraise, raised, renders,
                   wakes, since, wait_calls, batch, wake_ver, sent,
                   faults, enc_vars, spawned, app_vars, i2c_vars>>

\* (mutant) the lock closure does not end with the encoding: the Ref and the
\* critical section are kept while the rows are transmitted.
H_encode_hold ==
    /\ CanRun(HandlerTask)
    /\ h_pc = "encode"
    /\ pulsecodes' = EncodeFrame(frame_buffer, pulsecodes)
    /\ snapshot' = frame_buffer
    /\ snap_version' = version
    /\ h_i' = 0
    /\ h_pc' = "transmit"
    /\ UNCHANGED <<taken, m_pc, frame_buffer, borrow, cs, activation_signal,
                   rmt_ram, rmt_busy, panicked, p_pc, p_ops, p_k, p_ch, calls,
                   committed, version, rendered, notified, p_ver, p_single,
                   p_nraise, raised, renders, wakes, since, wait_calls,
                   batch, wake_ver, sent, faults, enc_vars, spawned, app_vars, i2c_vars>>

\* The two nested loops calling write_pulse_codes for every byte of the frame,
\* then the end of the lock closure: the Ref is dropped, the critical section left.
H_encode ==
    /\ CanRun(HandlerTask)
    /\ h_pc = "encode"
    /\ pulsecodes' = EncodeFrame(frame_buffer, pulsecodes)
    /\ snapshot' = frame_buffer
    /\ snap_version' = version
    /\ borrow' = borrow - 1
    /\ cs' = NoTask
    /\ h_i' = 0
    /\ h_pc' = "transmit"
    /\ UNCHANGED <<taken, m_pc, frame_buffer, activation_signal, rmt_ram,
                   rmt_busy, panicked, p_pc, p_ops, p_k, p_ch, calls,
                   committed, version, rendered, notified, p_ver, p_single,
                   p_nraise, raised, renders, wakes, since, wait_calls,
                   batch, wake_ver, sent,
                   faults, enc_vars, spawned, app_vars, i2c_vars>>

\* (mutant) the row is encoded from the frame buffer when it is submitted.
H_submit_live ==
    /\ CanRun(HandlerTask)
    /\ h_pc = "transmit"
    /\ h_i < PIXEL_COUNT
    /\ rmt_ram' = EncodeRow(frame_buffer[h_i], pulsecodes[h_i])
    /\ rmt_busy' = rmt_busy + 1
    /\ sent' = Append(sent, h_i)
    /\ h_pc' = "inflight"
    /\ UNCHANGED <<taken, m_pc, frame_buffer, borrow, cs, activation_signal,
                   pulsecodes, h_i, panicked, p_pc, p_ops, p_k, p_ch, calls,
                   snapshot, committed, version, snap_version, rendered,
                   notified, p_ver, p_single, p_nraise, raised, renders,
                   wakes, since, wait_calls, batch, wake_ver,
                   faults, enc_vars, spawned, app_vars, i2c_vars>>

\* (mutant) the transmission is started and the loop goes on without awaiting it.
H_submit_no_await ==
    /\ CanRun(HandlerTask)
    /\ h_pc = "transmit"
    /\ h_i < PIXEL_COUNT
    /\ rmt_ram' = pulsecodes[h_i]
    /\ rmt_busy' = rmt_busy + 1
    /\ sent' = Append(sent, h_i)
    /\ h_i' = h_i + 1
    /\ IF h_i + 1 = PIXEL_COUNT
       THEN /\ h_pc' = "reset"
            /\ rendered' = snap_version
       ELSE UNCHANGED <<h_pc, rendered>>
    /\ UNCHANGED <<taken, m_pc, frame_buffer, borrow, cs, activation_signal,
                   pulsecodes, panicked, p_pc, p_ops, p_k, p_ch, calls,
                   snapshot, committed, version, snap_version, notified,
                   p_ver, p_single, p_nraise, raised, renders, wakes, since,
                   wait_calls, batch, wake_ver,
                   faults, enc_vars, spawned, app_vars, i2c_vars>>

\* for pulsecode in pulsecodes.iter() { channel.transmit(pulsecode) ..
\* the row is copied to the channel RAM and the transmission is started.
H_submit ==
    /\ CanRun(HandlerTask)
    /\ h_pc = "transmit"
    /\ h_i < PIXEL_COUNT
    /\ rmt_ram' = pulsecodes[h_i]
    /\ rmt_busy' = rmt_busy + 1
    /\ sent' = Append(sent, h_i)
    /\ h_pc' = "inflight"
    /\ UNCHANGED <<taken, m_pc, frame_buffer, borrow, cs, activation_signal,
                   pulsecodes, h_i, panicked, p_pc, p_ops, p_k, p_ch, calls,
                   snapshot, committed, version, snap_version, rendered,
                   notified, p_ver, p_single, p_nraise, raised, renders,
                   wakes, since, wait_calls, batch, wake_ver,
                   faults, enc_vars, spawned, app_vars, i2c_vars>>

\* (mutant) after the last row the loop goes straight back to wait().
H_complete_ok_skip_reset ==
    /\ CanRun(HandlerTask)
    /\ h_pc = "inflight"
    /\ rmt_busy' = rmt_busy - 1
    /\ h_i' = h_i + 1
    /\ IF h_i + 1 = PIXEL_COUNT
       THEN /\ h_pc' = "wait"
            /\ rendered' = snap_version
       ELSE /\ h_pc' = "transmit"
            /\ UNCHANGED rendered
    /\ UNCHANGED <<taken, m_pc, frame_buffer, borrow, cs, activation_signal,
                   pulsecodes, rmt_ram, panicked, p_pc, p_ops, p_k, p_ch,
                   calls, snapshot, committed, version, snap_version,
                   notified, p_ver, p_single, p_nraise, raised, renders,
                   wakes, since, wait_calls, batch, wake_ver, sent,
                   faults, enc_vars, spawned, app_vars, i2c_vars>>

\* .. .await.unwrap() with Ok(()): the next row, or after the last row the
\* reset delay Timer::after_micros(50).
H_complete_ok ==
    /\ CanRun(HandlerTask)
    /\ h_pc = "inflight"
    /\ rmt_busy' = rmt_busy - 1
    /\ h_i' = h_i + 1
    /\ IF h_i + 1 = PIXEL_COUNT
       THEN /\ h_pc' = "reset"
            /\ rendered' = snap_version
       ELSE /\ h_pc' = "transmit"
            /\ UNCHANGED rendered
    /\ UNCHANGED <<taken, m_pc, frame_buffer, borrow, cs, activation_signal,
                   pulsecodes, rmt_ram, panicked, p_pc, p_ops, p_k, p_ch,
                   calls, snapshot, committed, version, snap_version,
                   notified, p_ver, p_single, p_nraise, raised, renders,
                   wakes, since, wait_calls, batch, wake_ver, sent,
                   faults, enc_vars, spawned, app_vars, i2c_vars>>

\* (mutant) an Err(_) of transmit is dropped and the loop goes on with the
\* next row.
H_complete_err_continue ==
    /\ CanRun(HandlerTask)
    /\ h_pc = "inflight"
    /\ h_i \in FaultChunks
    /\ rmt_busy' = rmt_busy - 1
    /\ faults' = faults + 1
    /\ h_i' = h_i + 1
    /\ h_pc' = "transmit"
    /\ UNCHANGED <<taken, m_pc, frame_buffer, borrow, cs, activation_signal,
                   pulsecodes, rmt_ram, panicked, p_pc, p_ops, p_k, p_ch,
                   calls, snapshot, committed, version, snap_version,
                   rendered, notified, p_ver, p_single, p_nraise, raised,
                   renders, wakes, since, wait_calls, batch, wake_ver, sent,
                   enc_vars, spawned, app_vars, i2c_vars>>

\* .. .await.unwrap() with Err(_): unwrap panics.
H_complete_err ==
    /\ CanRun(HandlerTask)
    /\ h_pc = "inflight"
    /\ h_i \in FaultChunks
    /\ rmt_busy' = rmt_busy - 1
    /\ panicked' = TRUE
    /\ faults' = faults + 1
    /\ UNCHANGED <<taken, m_pc, frame_buffer, borrow, cs, activation_signal,
                   pulsecodes, h_pc, h_i, rmt_ram, p_pc, p_ops, p_k, p_ch,
                   calls, snapshot, committed, version, snap_version,
                   rendered, notified, p_ver, p_single, p_nraise, raised,
                   renders, wakes, since, wait_calls, batch, wake_ver, sent,
                   enc_vars, spawned, app_vars, i2c_vars>>

\* Timer::after_micros(50).await has elapsed: back to the top of the loop.
H_reset ==
    /\ CanRun(HandlerTask)
    /\ h_pc = "reset"
    /\ h_pc' = "wait"
    /\ wait_calls' = 0
    /\ batch' = 0
    /\ UNCHANGED <<taken, m_pc, frame_buffer, borrow, cs, activation_signal,
                   pulsecodes, h_i, rmt_ram, rmt_busy, panicked, p_pc, p_ops,
                   p_k, p_ch, calls, snapshot, committed, version,
                   snap_version, rendered, notified, p_ver, p_single,
                   p_nraise, raised, renders, wakes, since, wake_ver, sent,
                   faults, enc_vars, spawned, app_vars, i2c_vars>>

(***************************************************************************)
(* The specification.                                                      *)
(***************************************************************************)
Next ==
    \/ New_spawn
    \/ New_signal
    \/ \E p \in Producers, ops \in Closures : P_call(p, ops)
    \/ \E p \in Producers : P_write(p)
    \/ \E p \in Producers : P_fill(p)
    \/ \E p \in Producers : P_oob(p)
    \/ \E p \in Producers : P_unlock(p)
    \/ \E p \in Producers : P_signal(p)
    \/ H_wait_ready
    \/ H_wait_pending
    \/ H_lock
    \/ H_encode
    \/ H_submit
    \/ H_complete_ok
    \/ H_complete_err
    \/ H_reset

Spec == Init /\ [][Next]_vars

\* The steps of the handler task other than a panic, and the steps of the
\* calls that have started.  The executors run every task that is ready, and
\* a critical section runs to its end.
HandlerStep ==
    \/ H_wait_ready
    \/ H_wait_pending
    \/ H_lock
    \/ H_encode
    \/ H_submit
    \/ H_complete_ok
    \/ H_reset

CallerStep ==
    \/ New_signal
    \/ \E p \in Producers : P_write(p) \/ P_fill(p) \/ P_unlock(p) \/ P_signal(p)

\* The behaviours without a panic: no transmission fault, no index out of
\* range; the calls are a set_pixel and a closure writing all 16 pixels.
LiveClosures == { SetPixelOps(0, RED), << <<"fill", 0, BLACK>> >> }

LiveNext ==
    \/ New_spawn
    \/ New_signal
    \/ \E p \in Producers, ops \in LiveClosures : P_call(p, ops)
    \/ \E p \in Producers : P_write(p)
    \/ \E p \in Producers : P_fill(p)
    \/ \E p \in Producers : P_unlock(p)
    \/ \E p \in Producers : P_signal(p)
    \/ H_wait_ready
    \/ H_wait_pending
    \/ H_lock
    \/ H_encode
    \/ H_submit
    \/ H_complete_ok
    \/ H_reset

LiveSpec ==
    /\ Init
    /\ [][LiveNext]_vars
    /\ WF_vars(HandlerStep)
    /\ WF_vars(CallerStep)

\* The behaviours without a panic in which the calls are a closure that only
\* reads the frame (as the QueryColors arm of feature-creep passes) and a
\* set_pixel.
ReadClosures == { <<>>, SetPixelOps(0, RED) }

ReadNext ==
    \/ New_spawn
    \/ New_signal
    \/ \E p \in Producers, ops \in ReadClosures : P_call(p, ops)
    \/ \E p \in Producers : P_write(p)
    \/ \E p \in Producers : P_unlock(p)
    \/ \E p \in Producers : P_signal(p)
    \/ H_wait_ready
    \/ H_wait_pending
    \/ H_lock
    \/ H_encode
    \/ H_submit
    \/ H_complete_ok
    \/ H_reset

ReadSpec ==
    /\ Init
    /\ [][ReadNext]_vars
    /\ WF_vars(HandlerStep)
    /\ WF_vars(CallerStep)

(***************************************************************************)
(* Misuse of the handle: a call made from inside a with_frame_buffer       *)
(* closure on a copy of the handle, and a second call of Ws2812b::new.     *)
(***************************************************************************)
\* (mutant) the inner call gets its mutable view although the outer closure
\* holds one.
P_reenter_unchecked(p) ==
    /\ CanRun(ProducerTask(p))
    /\ p_pc[p] = "closure"
    /\ p_k[p] <= Len(p_ops[p])
    /\ p_ops[p][p_k[p]][1] = "with_frame_buffer"
    /\ LET rgb == p_ops[p][p_k[p]][3]
       IN  frame_buffer' = [frame_buffer EXCEPT
                              ![p_ops[p][p_k[p]][2]] =
                                  <<StoredChannel(rgb, 1), StoredChannel(rgb, 2),
                                    StoredChannel(rgb, 3)>>]
    /\ Raise
    /\ p_k' = [p_k EXCEPT ![p] = p_k[p] + 1]
    /\ UNCHANGED panicked
    /\ UNCHANGED <<taken, m_pc, borrow, cs, pulsecodes, h_i, rmt_ram,
                   rmt_busy, p_pc, p_ops, p_ch, calls, snapshot, committed,
                   version, snap_version, rendered, notified, p_ver, p_single,
                   p_nraise, renders, wait_calls, batch, wake_ver, sent,
                   faults, enc_vars, spawned, app_vars, i2c_vars>>

\* The closure calls set_pixel(index, rgb), i.e. with_frame_buffer, on a
\* copy of the handle.  lock() enters the critical section again, which
\* nests; borrow_mut() panics unless the RefCell is unborrowed, and
\* otherwise the inner closure stores its pixel and the call signals.
P_reenter(p) ==
    /\ CanRun(ProducerTask(p))
    /\ p_pc[p] = "closure"
    /\ p_k[p] <= Len(p_ops[p])
    /\ p_ops[p][p_k[p]][1] = "with_frame_buffer"
    /\ IF borrow = 0
       THEN /\ LET rgb == p_ops[p][p_k[p]][3]
               IN  frame_buffer' = [frame_buffer EXCEPT
                                      ![p_ops[p][p_k[p]][2]] =
                                          <<StoredChannel(rgb, 1),
                                            StoredChannel(rgb, 2),
                                            StoredChannel(rgb, 3)>>]
            /\ Raise
            /\ p_k' = [p_k EXCEPT ![p] = p_k[p] + 1]
            /\ UNCHANGED panicked
       ELSE /\ panicked' = TRUE
            /\ UNCHANGED <<frame_buffer, activation_signal, h_pc, raised,
                           since, wakes, p_k>>
    /\ UNCHANGED <<taken, m_pc, borrow, cs, pulsecodes, h_i, rmt_ram,
                   rmt_busy, p_pc, p_ops, p_ch, calls, snapshot, committed,
                   version, snap_version, rendered, notified, p_ver, p_single,
                   p_nraise, renders, wait_calls, batch, wake_ver, sent,
                   faults, enc_vars, spawned, app_vars, i2c_vars>>

\* Some task calls Ws2812b::new once more.
New_again ==
    /\ CanEnter(MainTask)
    /\ m_pc = "done"
    /\ m_pc' = "start"
    /\ UNCHANGED <<taken, frame_buffer, borrow, cs, activation_signal,
                   pulsecodes, h_pc, h_i, rmt_ram, rmt_busy, panicked, p_pc,
                   p_ops, p_k, p_ch, calls, hist_vars, enc_vars, app_vars, i2c_vars>>

\* A set_pixel, and a closure that stores a pixel and then calls set_pixel
\* on a copy of the handle.
MisuseClosures ==
    { SetPixelOps(0, RED),
      << <<"set_pixel", 0, BLUE>>, <<"with_frame_buffer", 0, RED>> >> }

MisuseNext ==
    \/ New_spawn
    \/ New_signal
    \/ New_again
    \/ \E p \in Producers, ops \in MisuseClosures : P_call(p, ops)
    \/ \E p \in Producers : P_write(p)
    \/ \E p \in Producers : P_reenter(p)
    \/ \E p \in Producers : P_unlock(p)
    \/ \E p \in Producers : P_signal(p)
    \/ H_wait_ready
    \/ H_wait_pending
    \/ H_lock
    \/ H_encode
    \/ H_submit
    \/ H_complete_ok
    \/ H_reset

MisuseSpec == Init /\ [][MisuseNext]_vars

(***************************************************************************)
(* write_pulse_codes taken on its own: one call on any byte, with one of   *)
(* the corrections of the handler or another f32 in (0, 1].                *)
(***************************************************************************)
\* The corrections passed: the three of the handler, 1.0, 0.5 and the f32
\* just below 0.5 (0.49999997 = 16777215 * 2^-25).
InputCorrections ==
    { CORRECTIONS[1], CORRECTIONS[2], CORRECTIONS[3],
      <<8388608, 0 - 23>>, <<8388608, 0 - 24>>, <<16777215, 0 - 25>> }

EncInit ==
    /\ SysInit
    /\ app = "none"
    /\ AppStart
    /\ w_pc = "idle"
    /\ w_byte \in 0 .. 255
    /\ w_correction \in InputCorrections
    /\ w_out = <<>>

\* write_pulse_codes(byte, out, correction).
W_call ==
    /\ w_pc = "idle"
    /\ w_out' = write_pulse_codes(w_byte, w_correction)
    /\ w_pc' = "done"
    /\ UNCHANGED <<w_byte, w_correction, prog_vars, hist_vars, app_vars, i2c_vars>>

EncNext == W_call

EncSpec == EncInit /\ [][EncNext]_vars

(***************************************************************************)
(* The applications: apps/diodes (main loop) and apps/feature-creep (the   *)
(* websocket handler).  A call of with_frame_buffer or set_pixel by an     *)
(* application is taken as one step: the lock closure, which runs inside   *)
(* the critical section, followed by signal().  The render task, which    *)
(* only reads the frame buffer, takes no step in AppSpec.                  *)
(***************************************************************************)
\* Steps an application may take.
MaxAppSteps == 18

\* hsv_to_rgb(hue, 1.0, 0.05): a dim colour.
DiodeColours == { <<12, 3, 0>> }

\* The websocket frames received, as <<command, index, rgb, whole>>: whole
\* says that from_slice consumed the whole payload.  "Unparsed" is a payload
\* from_slice rejects.
WsFrames ==
    { <<"ChangeColor", 0, RED, TRUE>>, <<"ChangeColor", 0, BLUE, TRUE>>,
      <<"ChangeColor", 15, BLUE, TRUE>>, <<"ChangeColor", 16, RED, TRUE>>,
      <<"ChangeColor", 255, BLUE, TRUE>>, <<"ChangeColor", 15, RED, FALSE>>,
      <<"QueryColors", 0, BLACK, TRUE>>, <<"QueryColors", 0, BLACK, FALSE>>,
      <<"Unparsed", 0, BLACK, FALSE>> }

\* Ws2812b::set_pixel(index, rgb) called by an application.
AppSetPixel(index, rgb) ==
    /\ issued' = issued \cup {index}
    /\ IF index \in Pixels
       THEN /\ frame_buffer' = [frame_buffer EXCEPT ![index] =
                                  <<StoredChannel(rgb, 1), StoredChannel(rgb, 2),
                                    StoredChannel(rgb, 3)>>]
            /\ committed' = frame_buffer'
            /\ version' = version + 1
            /\ notified' = version + 1
            /\ last_rgb' = [last_rgb EXCEPT ![index] = rgb]
            /\ Raise
            /\ UNCHANGED panicked
       ELSE /\ panicked' = TRUE
            /\ UNCHANGED <<frame_buffer, committed, version, notified, last_rgb,
                           activation_signal, h_pc, raised, since, wakes>>

\* diodes: loop { Timer::after_millis(100).await;
\*                ws2812b.set_pixel(i, hsv_to_rgb(..)); i = (i + 1) % 16; }
Diodes_step(rgb) ==
    /\ app = "diodes"
    /\ CanEnter(MainTask)
    /\ m_pc = "done"
    /\ app_n < MaxAppSteps
    /\ app_n' = app_n + 1
    /\ AppSetPixel(d_i, rgb)
    /\ d_i' = (d_i + 1) % 16
    /\ UNCHANGED <<taken, m_pc, borrow, cs, pulsecodes, h_i, rmt_ram, rmt_busy,
                   p_pc, p_ops, p_k, p_ch, calls, snapshot, snap_version,
                   rendered, p_ver, p_single, p_nraise, renders, wait_calls,
                   batch, wake_ver, sent, faults, spawned, enc_vars,
                   app, ws_pc, ws_msg, ws_res, i2c_vars>>

WebTask == <<"web", 0>>

\* feature-creep: a websocket frame has arrived and from_slice has parsed it.
WS_receive(frame) ==
    /\ app = "feature-creep"
    /\ CanEnter(WebTask)
    /\ m_pc = "done"
    /\ ws_pc = "next"
    /\ app_n < MaxAppSteps
    /\ app_n' = app_n + 1
    /\ ws_msg' = frame
    /\ ws_pc' = "got"
    /\ UNCHANGED <<prog_vars, hist_vars, enc_vars, app, d_i, ws_res, last_rgb,
                   issued, i2c_vars>>

\* (mutant) any ChangeColor command is applied.
ChangeColorApplies_any(frame) == frame[1] = "ChangeColor"

\* The guard of the ChangeColor arm:
\* Ok((Command::ChangeColor { index, rgb }, consumed))
\*     if data.len() == consumed && index < 16
ChangeColorApplies(frame) ==
    frame[1] = "ChangeColor" /\ frame[4] /\ frame[2] < 16

\* The ChangeColor arm: self.ws2812b.set_pixel(index as usize, rgb).
WS_change ==
    /\ CanEnter(WebTask)
    /\ ws_pc = "got"
    /\ ChangeColorApplies(ws_msg)
    /\ AppSetPixel(ws_msg[2], ws_msg[3])
    /\ ws_pc' = "next"
    /\ UNCHANGED <<taken, m_pc, borrow, cs, pulsecodes, h_i, rmt_ram, rmt_busy,
                   p_pc, p_ops, p_k, p_ch, calls, snapshot, snap_version,
                   rendered, p_ver, p_single, p_nraise, renders, wait_calls,
                   batch, wake_ver, sent, faults, spawned, enc_vars,
                   app, d_i, ws_msg, ws_res, app_n, i2c_vars>>

\* (mutant) the reply carries the pixels in their stored order.
QueryReply_stored(frame) == frame

\* The closure of the QueryColors arm over f.raw_mut():
\* res[i].0 = pix[1]; res[i].1 = pix[0]; res[i].2 = pix[2].
QueryReply(frame) ==
    [i \in Pixels |-> <<frame[i][2], frame[i][1], frame[i][3]>>]

\* The QueryColors arm: with_frame_buffer runs the closure and signals; the
\* reply Message::CurrentColors(res) is sent.
WS_query ==
    /\ CanEnter(WebTask)
    /\ ws_pc = "got"
    /\ ws_msg[1] = "QueryColors"
    /\ ws_res' = QueryReply(frame_buffer)
    /\ committed' = frame_buffer
    /\ version' = version + 1
    /\ notified' = version + 1
    /\ Raise
    /\ ws_pc' = "next"
    /\ UNCHANGED <<taken, m_pc, frame_buffer, borrow, cs, pulsecodes, h_i,
                   rmt_ram, rmt_busy, panicked, p_pc, p_ops, p_k, p_ch, calls,
                   snapshot, snap_version, rendered, p_ver, p_single,
                   p_nraise, renders, wait_calls, batch, wake_ver, sent,
                   faults, spawned, enc_vars,
                   app, d_i, ws_msg, last_rgb, issued, app_n, i2c_vars>>

\* The two remaining arms: a command not handled (a ChangeColor that fails
\* the guard among them) and a payload that does not parse are printed.
WS_ignore ==
    /\ CanEnter(WebTask)
    /\ ws_pc = "got"
    /\ ~ChangeColorApplies(ws_msg)
    /\ ws_msg[1] # "QueryColors"
    /\ ws_pc' = "next"
    /\ UNCHANGED <<prog_vars, hist_vars, enc_vars, app, d_i, ws_msg, ws_res,
                   last_rgb, issued, app_n, i2c_vars>>

AppInit ==
    /\ SysInit
    /\ w_pc = "idle"
    /\ w_byte = 0
    /\ w_correction = CORRECTIONS[1]
    /\ w_out = <<>>
    /\ app \in {"diodes", "feature-creep"}
    /\ AppStart

AppNext ==
    \/ New_spawn
    \/ New_signal
    \/ \E rgb \in DiodeColours : Diodes_step(rgb)
    \/ \E frame \in WsFrames : WS_receive(frame)
    \/ WS_change
    \/ WS_query
    \/ WS_ignore

AppSpec == AppInit /\ [][AppNext]_vars

(***************************************************************************)
(* SharedI2c (libs/bhbadge2024/src/shared_i2c.rs): the I2C peripheral      *)
(* behind an async Mutex<NoopRawMutex, _>.  The handle is Copy but not     *)
(* Send, so its users are tasks of one executor: a task runs from one      *)
(* suspension point to the next without another task in between.  An I2C   *)
(* transaction is a write phase, a read phase or both, the task being      *)
(* suspended during each phase until the peripheral has finished it.       *)
(***************************************************************************)
I2cOps == {"write", "read", "write_read"}

\* The phase a transaction of the method op starts with.
FirstPhase(op) == IF op = "read" THEN "read" ELSE "write"

\* A task calls write, read or write_read on its copy of the handle.
I2c_call(t, op) ==
    /\ t_pc[t] = "idle"
    /\ i2c_calls < MaxI2cCalls
    /\ i2c_calls' = i2c_calls + 1
    /\ t_pc' = [t_pc EXCEPT ![t] = "lock"]
    /\ t_op' = [t_op EXCEPT ![t] = op]
    /\ UNCHANGED <<i2c_locked, i2c_waker, bus_active, bus_log,
                   prog_vars, hist_vars, enc_vars, app_vars>>

\* (mutant) the guard is dropped as soon as lock() has returned it: the
\* transaction runs with the Mutex unlocked.
I2c_lock_guard_dropped(t) ==
    /\ t_pc[t] = "lock"
    /\ IF i2c_locked
       THEN /\ i2c_waker' = t
            /\ t_pc' = [u \in I2cTasks |->
                          IF u = t THEN "parked"
                          ELSE IF u = i2c_waker THEN "lock" ELSE t_pc[u]]
            /\ UNCHANGED <<i2c_locked, bus_active>>
       ELSE /\ i2c_locked' = FALSE
            /\ bus_active' = bus_active \cup {t}
            /\ t_pc' = [t_pc EXCEPT ![t] = FirstPhase(t_op[t])]
            /\ UNCHANGED i2c_waker
    /\ UNCHANGED <<t_op, bus_log, i2c_calls,
                   prog_vars, hist_vars, enc_vars, app_vars>>

\* One poll of self.ptr.lock().await followed by the start of the
\* transaction.  Mutex::lock: when State::locked is set the task's waker is
\* registered (a different waker registered before is woken) and the poll is
\* Pending; otherwise locked is set, the guard returned, and the method of
\* the I2C is called on it, which starts the first phase and suspends.
I2c_lock(t) ==
    /\ t_pc[t] = "lock"
    /\ IF i2c_locked
       THEN /\ i2c_waker' = t
            /\ t_pc' = [u \in I2cTasks |->
                          IF u = t THEN "parked"
                          ELSE IF u = i2c_waker THEN "lock" ELSE t_pc[u]]
            /\ UNCHANGED <<i2c_locked, bus_active>>
       ELSE /\ i2c_locked' = TRUE
            /\ bus_active' = bus_active \cup {t}
            /\ t_pc' = [t_pc EXCEPT ![t] = FirstPhase(t_op[t])]
            /\ UNCHANGED i2c_waker
    /\ UNCHANGED <<t_op, bus_log, i2c_calls,
                   prog_vars, hist_vars, enc_vars, app_vars>>

\* The end of the transaction of task t: the method returns its Result, the
\* guard, a temporary of the method's tail expression, is dropped:
\* MutexGuard::drop clears locked and wakes the registered waker.
I2cRelease(t) ==
    /\ bus_active' = bus_active \ {t}
    /\ i2c_locked' = FALSE
    /\ i2c_waker' = 0
    /\ t_pc' = [u \in I2cTasks |->
                  IF u = t THEN "idle"
                  ELSE IF u = i2c_waker THEN "lock" ELSE t_pc[u]]

\* The peripheral has finished the phase the task was suspended on: the
\* write phase of a write_read goes on with the read phase, any other phase
\* ends the transaction with Ok(()).
I2c_phase(t) ==
    /\ t_pc[t] \in {"write", "read"}
    /\ bus_log' = Append(bus_log, <<t, t_op[t], t_pc[t]>>)
    /\ IF t_op[t] = "write_read" /\ t_pc[t] = "write"
       THEN /\ t_pc' = [t_pc EXCEPT ![t] = "read"]
            /\ UNCHANGED <<i2c_locked, i2c_waker, bus_active>>
       ELSE I2cRelease(t)
    /\ UNCHANGED <<t_op, i2c_calls, prog_vars, hist_vars, enc_vars, app_vars>>

\* The peripheral reports an error in the phase: the transaction ends there
\* with Err(_).
I2c_error(t) ==
    /\ t_pc[t] \in {"write", "read"}
    /\ bus_log' = Append(bus_log, <<t, t_op[t], "error">>)
    /\ I2cRelease(t)
    /\ UNCHANGED <<t_op, i2c_calls, prog_vars, hist_vars, enc_vars, app_vars>>

I2cNext ==
    \/ \E t \in I2cTasks, op \in I2cOps : I2c_call(t, op)
    \/ \E t \in I2cTasks : I2c_lock(t)
    \/ \E t \in I2cTasks : I2c_phase(t)
    \/ \E t \in I2cTasks : I2c_error(t)

I2cSpec == Init /\ [][I2cNext]_vars

(***************************************************************************)
(* Properties.                                                             *)
(***************************************************************************)
\* Stored (g, r, b) form of a colour given as (r, g, b).
Grb(rgb) == <<rgb[2], rgb[1], rgb[3]>>

\* The handler is between the return of wait() and the end of the reset delay.
InPass == h_pc \in {"lock", "encode", "transmit", "inflight", "reset"}

\* The handler has encoded the frame of the current pass.
Encoded == h_pc \in {"transmit", "inflight", "reset"}

Waiting == h_pc \in {"wait", "parked"}

\* Parties inside the frame buffer's lock closure.
GuardHolders ==
    { ProducerTask(p) : p \in { q \in Producers : p_pc[q] = "closure" } }
    \cup (IF h_pc = "encode" THEN {HandlerTask} ELSE {})

\* C1: every row handed to the transmitter is the encoding of the pixel of
\* the one frame read by the encode step of the current pass, and the staging
\* buffer changes only in that encode step, never while rows are being
\* transmitted, whatever the producers do meanwhile.
C1_OneSnapshotPerPass ==
    [][ /\ (h_pc = "inflight" =>
              rmt_ram = EncodeRow(snapshot[h_i], ZeroCodes[h_i]))
        /\ (pulsecodes' # pulsecodes => h_pc = "encode" /\ h_pc' = "transmit")
      ]_vars

\* Row 15 is in flight while a producer has already changed pixel 15.
C1_Witness ==
    /\ h_pc = "inflight"
    /\ h_i = PIXEL_COUNT - 1
    /\ frame_buffer[h_i] # snapshot[h_i]
    /\ rmt_ram = EncodeRow(snapshot[h_i], ZeroCodes[h_i])

\* C2: when the handler reads the frame to encode it, no closure is part-way
\* through its writes: the frame is the one left by the latest closure that
\* ended (or the initial frame).
C2_SnapshotIsConsistent == h_pc = "encode" => frame_buffer = committed

\* The handler is about to encode the frame left by the two-pixel closure,
\* while another call is still to come.
C2_Witness ==
    /\ h_pc = "encode"
    /\ frame_buffer[0] = Grb(BLUE)
    /\ frame_buffer[PIXEL_COUNT - 1] = Grb(RED)
    /\ snapshot # frame_buffer

\* The (g, r, b) values complete calls can leave in slot i.
WholePixels(i) ==
    { ZeroFrame[i] }
    \cup { Grb(ops[k][3]) : <<ops, k>> \in
             { <<o, n>> \in Closures \X (1 .. 2) :
                 n <= Len(o) /\ (o[n][1] = "fill" \/ o[n][2] = i) } }

\* C3: at most one party is inside the lock closure of the frame buffer, and
\* whenever none is, every slot holds the three channels of one complete
\* write (or the initial zeros), never a mix of two calls.
C3_MutualExclusion ==
    /\ Cardinality(GuardHolders) <= 1
    /\ (GuardHolders = {} =>
          \A i \in Pixels : frame_buffer[i] \in WholePixels(i))

\* Two set_pixel calls on slot 0 with different colours have both written,
\* one of them not yet returned.
C3_Witness ==
    /\ GuardHolders = {}
    /\ version = 2
    /\ \E p \in Producers : p_pc[p] = "signal" /\ p_single[p]
    /\ frame_buffer[0] \in {Grb(RED), Grb(BLUE)}
    /\ frame_buffer[PIXEL_COUNT - 1] = ZeroFrame[0]

\* C4: in the behaviours without a panic and with every ready task run,
\* every call that has returned is eventually covered by a completed pass
\* whose frame was read after the call's writes.
C4_LastMutationRendered ==
    \A v \in 1 .. MaxCalls : (notified >= v) ~> (rendered >= v)

\* Three passes have completed, the last one covering both calls.
C4_Witness ==
    /\ h_pc = "parked"
    /\ renders = 3
    /\ notified = 2
    /\ rendered = 2
    /\ ~panicked

\* C5: set_pixel calls that complete while the handler is waiting leave one
\* pending wake, the passes started never exceed the number of first raises
\* (and equal it when the handler is suspended), and the pass that follows
\* encodes a frame taken after all those calls' writes.
C5_CoalescedRender ==
    /\ renders <= wakes
    /\ (h_pc = "parked" => renders = wakes)
    /\ (Waiting /\ wait_calls >= 2 => activation_signal = "Signaled")
    /\ (Encoded => snap_version >= wake_ver)

\* Two set_pixel calls completed during one wait, and the single pass that
\* followed has sent its 16 rows with both writes in the snapshot.
C5_Witness ==
    /\ batch = 2
    /\ h_pc = "reset"
    /\ renders = 2
    /\ raised = 3
    /\ snap_version = 2

\* C6: once the signal has been raised since the last return of wait(), it is
\* pending, and raising it again changes neither the signal nor the handler.
C6_RaiseIdempotent ==
    [][ /\ (since >= 1 => activation_signal = "Signaled")
        /\ (raised' # raised /\ since >= 1 =>
              activation_signal' = activation_signal /\ h_pc' = h_pc)
      ]_vars

\* The signal was raised three times before one return of wait().
C6_Witness == since = 3 /\ activation_signal = "Signaled"

\* C7: the handler leaves wait() only with the signal raised since the
\* previous return, the return clears the signal, and the passes started
\* never exceed the raises.
C7_NoSpontaneousRender ==
    [][ /\ (Waiting /\ ~Waiting' =>
              /\ since >= 1
              /\ activation_signal = "Signaled"
              /\ activation_signal' = "None"
              /\ renders' = renders + 1)
        /\ (renders' # renders => Waiting /\ ~Waiting')
        /\ renders <= raised
        /\ renders' <= raised'
      ]_vars

\* The handler is suspended after its third pass with nothing pending.
C7_Witness ==
    /\ h_pc = "parked"
    /\ renders = 3
    /\ raised = 3
    /\ activation_signal = "Waiting"

\* C8: when the closure of set_pixel(index, (r, g, b)) ends, slot index holds
\* (g, r, b); the signal is raised by a call only after its closure has ended
\* and the guard has been released.
C8_SetPixelStoresGrb ==
    [][ \A p \in Producers :
          /\ (p_pc[p] = "closure" /\ p_pc'[p] = "signal" /\ IsSetPixel(p_ops[p]) =>
                LET index == p_ops[p][1][2]
                    rgb   == p_ops[p][1][3]
                IN  frame_buffer[index] = <<rgb[2], rgb[1], rgb[3]>>)
          /\ (p_nraise'[p] > p_nraise[p] =>
                /\ p_pc[p] = "signal"
                /\ cs = NoTask
                /\ borrow = 0)
      ]_vars

\* set_pixel(15, BLUE) has written and raised the signal.
C8_Witness ==
    /\ frame_buffer[PIXEL_COUNT - 1] = <<100, 40, 255>>
    /\ \E p \in Producers : p_pc[p] = "returned" /\ p_nraise[p] = 1
    /\ version = 1

\* C9: a call holds the guard throughout its closure without raising the
\* signal, has released the guard before it raises it, and has raised it
\* exactly once when it returns, whatever the closure wrote.
C9_OneRaisePerCall ==
    \A p \in Producers :
        /\ (p_pc[p] = "closure" =>
              cs = ProducerTask(p) /\ borrow = 0 - 1 /\ p_nraise[p] = 0)
        /\ (p_pc[p] = "signal" =>
              cs # ProducerTask(p) /\ p_nraise[p] = 0)
        /\ (p_pc[p] = "returned" => p_nraise[p] = 1)

\* One call has returned having raised the signal once; another is at the end
\* of a closure that wrote all 16 pixels, still holding the guard.
C9_Witness ==
    \E p, q \in Producers :
        /\ p_pc[p] = "returned" /\ p_nraise[p] = 1
        /\ p_pc[q] = "closure" /\ cs = ProducerTask(q)
        /\ p_ops[q] = << <<"fill", 0, BLACK>> >> /\ p_k[q] = 2
        /\ version = 1 /\ raised = 2

\* C10: the rows of a pass are submitted in index order 0, 1, .., one at a
\* time, each after the previous transmission has completed; a pass that
\* reaches the reset delay has submitted exactly 16 rows; only the handler's
\* transmit loop hands data to the transmitter.
C10_SequentialChunks ==
    [][ /\ rmt_busy <= 1
        /\ sent = [n \in 1 .. Len(sent) |-> n - 1]
        /\ (h_pc = "transmit" => rmt_busy = 0 /\ Len(sent) = h_i)
        /\ (h_pc = "inflight" => rmt_busy = 1 /\ Len(sent) = h_i + 1)
        /\ (h_pc = "reset" => rmt_busy = 0 /\ Len(sent) = PIXEL_COUNT)
        /\ (rmt_ram' # rmt_ram \/ rmt_busy' > rmt_busy =>
              h_pc = "transmit" /\ rmt_busy = 0)
      ]_vars

\* The last row of a pass is in flight after the 15 before it.
C10_Witness ==
    /\ h_pc = "inflight"
    /\ Len(sent) = PIXEL_COUNT
    /\ rmt_busy = 1
    /\ renders = 2

\* The state of the render loop a position of the handler belongs to.
Phase(pc) ==
    CASE pc \in {"wait", "parked"} -> "WaitingForChange"
      [] pc = "lock" -> "Snapshotting"
      [] pc = "encode" -> "Encoding"
      [] pc \in {"transmit", "inflight"} -> "Transmitting"
      [] pc = "reset" -> "ResetDelay"
      [] OTHER -> "Unspawned"

\* The changes of state of the loop body, and its start.
CycleEdges ==
    { <<"Unspawned", "WaitingForChange">>,
      <<"WaitingForChange", "Snapshotting">>,
      <<"Snapshotting", "Encoding">>,
      <<"Encoding", "Transmitting">>,
      <<"Transmitting", "ResetDelay">>,
      <<"ResetDelay", "WaitingForChange">> }

\* C11: without a transmission fault the handler only moves along the cycle
\* wait -> lock -> encode -> transmit -> reset -> wait; the reset delay is
\* entered only from the completion of row 15 and is the only way back to
\* wait(), so row 0 of the next pass is submitted after it; and the loop has
\* no terminal state: unless suspended in wait() with its waker stored, the
\* handler can take a step whenever no other task is in a critical section.
C11_RenderCycle ==
    [][ /\ (Phase(h_pc') # Phase(h_pc) =>
               <<Phase(h_pc), Phase(h_pc')>> \in CycleEdges)
        /\ (h_pc' = "reset" /\ h_pc # "reset" =>
               h_pc = "inflight" /\ h_i = PIXEL_COUNT - 1 /\ Len(sent) = PIXEL_COUNT)
        /\ (sent' # sent /\ Len(sent') = 1 =>
               h_pc = "transmit" /\ h_i = 0 /\ sent' = <<0>>)
        /\ (h_pc = "parked" => activation_signal = "Waiting")
        /\ (~panicked /\ cs = NoTask /\ h_pc \notin {"unspawned", "parked"} =>
               ENABLED HandlerStep)
      ]_vars

\* The second pass is over, its reset delay has elapsed, and the wake of a
\* third pass is pending.
C11_Witness ==
    /\ h_pc = "wait"
    /\ renders = 2
    /\ Len(sent) = PIXEL_COUNT
    /\ activation_signal = "Signaled"
    /\ ~panicked

\* C12 as stated: the handler has released the guard before it encodes (the
\* staging buffer is written with the guard free), and does not hold it
\* while rows are transmitted or during the reset delay.
C12_GuardReleasedBeforeEncoding ==
    [][ /\ (pulsecodes' # pulsecodes => cs = NoTask /\ borrow = 0)
        /\ (h_pc \in {"transmit", "inflight", "reset"} =>
               cs # HandlerTask /\ borrow <= 0)
      ]_vars

\* C12 (amended): the handler holds the guard exactly while it reads and
\* encodes the frame: the staging buffer is written inside the lock closure,
\* whose end releases the guard; the guard is not held by the handler while
\* rows are transmitted or during the reset delay: unless another producer
\* is inside its closure, a producer then finds the critical section free
\* and the RefCell not borrowed.
C12_GuardHeldOnlyWhileEncoding ==
    [][ /\ (pulsecodes' # pulsecodes =>
               /\ cs = HandlerTask /\ borrow = 1
               /\ cs' = NoTask /\ borrow' = 0)
        /\ (cs = HandlerTask <=> h_pc = "encode")
        /\ (h_pc \in {"transmit", "inflight", "reset"} =>
               cs # HandlerTask /\ borrow <= 0)
        /\ ((h_pc \in {"transmit", "inflight", "reset"}
               /\ ~panicked /\ \A q \in Producers : p_pc[q] # "closure") =>
               \A p \in Producers : CanEnter(ProducerTask(p)) /\ borrow = 0)
      ]_vars

\* A producer is inside its closure while row 3 is in flight.
C12_Witness ==
    /\ h_pc = "inflight"
    /\ h_i = 3
    /\ \E p \in Producers : p_pc[p] = "closure" /\ cs = ProducerTask(p)
    /\ borrow = 0 - 1

\* C13: once a transmission has ended with a fault on row k, the fault has
\* been reported (the unwrap has panicked), the handler is stopped at that
\* row, and the rows submitted in the pass are 0..k, each once: none of the
\* rows after k, and row k not a second time.
C13_FaultStopsPass ==
    faults >= 1 =>
        /\ panicked
        /\ faults = 1
        /\ h_pc = "inflight"
        /\ h_i \in FaultChunks
        /\ rmt_busy = 0
        /\ sent = [n \in 1 .. (h_i + 1) |-> n - 1]

\* The fifth row of a pass has faulted after a producer's call.
C13_Witness ==
    /\ faults = 1
    /\ h_i = 4
    /\ sent = <<0, 1, 2, 3, 4>>
    /\ version >= 1
    /\ panicked

\* C14: after a transmission fault the render loop is still there for the
\* next notify: it is suspended in wait() with its waker stored, or it can
\* take its next step (towards wait(), or into the fresh pass).
C14_FreshPassAfterFault ==
    faults >= 1 =>
        \/ h_pc = "parked" /\ activation_signal = "Waiting" /\ ~panicked
        \/ cs # NoTask /\ ~panicked
        \/ ENABLED HandlerStep

\* C15: after a transmission fault the producers keep running: a producer
\* that is not in a call can start one, and a call that has started can take
\* its next step (its stores, the end of its closure, its signal()).
C15_ProducersRunAfterFault ==
    faults >= 1 =>
        \A p \in Producers :
            /\ ((p_pc[p] \in {"idle", "returned"} /\ calls < MaxCalls /\ cs = NoTask) =>
                   ENABLED P_call(p, SetPixelOps(0, RED)))
            /\ ((p_pc[p] = "signal" /\ cs = NoTask) => ENABLED P_signal(p))
            /\ (p_pc[p] = "closure" =>
                   ENABLED (P_write(p) \/ P_fill(p) \/ P_oob(p) \/ P_unlock(p)))

\* C16: a set_pixel whose index is 16 or more stores nothing: the step it
\* takes leaves every slot of the frame as the latest completed closure left
\* it (no store to slot 15, none to slot index mod 16), and the call fails
\* there (it panics) instead of going on.
C16_OutOfRangeRejected ==
    [][ \A p \in Producers :
          (/\ p_pc[p] = "closure"
           /\ p_k[p] <= Len(p_ops[p])
           /\ p_ops[p][p_k[p]][1] = "set_pixel"
           /\ p_ops[p][p_k[p]][2] >= PIXEL_COUNT)
          => (/\ frame_buffer' = frame_buffer
              /\ frame_buffer' = committed'
              /\ panicked'
              /\ p_pc'[p] = "closure"
              /\ version' = version)
      ]_vars

\* set_pixel(16, RED) has failed after a call that set pixel 0: slot 0 keeps
\* that call's colour, slots 15 and 0 hold no red.
C16_Witness ==
    /\ panicked
    /\ \E p \in Producers :
          p_pc[p] = "closure" /\ p_ops[p] = SetPixelOps(PIXEL_COUNT, RED)
    /\ frame_buffer[0] = Grb(BLUE)
    /\ frame_buffer[PIXEL_COUNT - 1] = ZeroFrame[PIXEL_COUNT - 1]

C18_DecodeGivesCorrectedBytes ==
    [][ LET Bit(d) == IF d = ONE_BITS THEN 1 ELSE 0
            Decode(row, ch) ==
                LET o == 8 * (ch - 1)
                IN  Bit(row[o + 1]) * 128 + Bit(row[o + 2]) * 64
                    + Bit(row[o + 3]) * 32 + Bit(row[o + 4]) * 16
                    + Bit(row[o + 5]) * 8 + Bit(row[o + 6]) * 4
                    + Bit(row[o + 7]) * 2 + Bit(row[o + 8])
            Rounded(b, c) ==
                LET m  == c[1]
                    k  == 0 - c[2]
                    hi == b * (m \div 256) + (b * (m % 256)) \div 256
                IN  (hi + Pow2(k - 9)) \div Pow2(k - 8)
        IN  (h_pc = "encode" /\ h_pc' = "transmit") =>
              \A i \in Pixels :
                  /\ \A n \in 1 .. 24 : pulsecodes'[i][n] \in {ZERO_BITS, ONE_BITS}
                  /\ \A ch \in 1 .. 3 :
                        Decode(pulsecodes'[i], ch) =
                            Rounded(frame_buffer[i][ch], CORRECTIONS[ch])
      ]_vars

\* The frame with pixel 0 blue and pixel 15 red has been encoded and its
\* first row is about to be submitted.
C18_Witness ==
    /\ h_pc = "transmit"
    /\ h_i = 0
    /\ snapshot[0] = Grb(BLUE)
    /\ snapshot[PIXEL_COUNT - 1] = Grb(RED)

\* C19: the encode step leaves 16 rows of 25 slots, the first 24 of each
\* holding ZERO or ONE descriptors; no step changes the last slot of a row,
\* which keeps the value 0 it was initialised with (the end marker), and
\* every row handed to the transmitter has 25 slots ending with that 0.
C19_RowShape ==
    [][ /\ ((h_pc = "encode" /\ h_pc' = "transmit") =>
               \A i \in Pixels :
                   /\ Len(pulsecodes'[i]) = ROW_LEN
                   /\ \A n \in 1 .. (ROW_LEN - 1) :
                         pulsecodes'[i][n] \in {ZERO_BITS, ONE_BITS})
        /\ \A i \in Pixels :
              pulsecodes[i][ROW_LEN] = 0 /\ pulsecodes'[i][ROW_LEN] = 0
        /\ (h_pc' = "inflight" =>
               /\ Len(rmt_ram') = ROW_LEN
               /\ rmt_ram'[ROW_LEN] = 0
               /\ \A n \in 1 .. (ROW_LEN - 1) : rmt_ram'[n] \in {ZERO_BITS, ONE_BITS})
      ]_vars

\* The last row of the second pass is in flight, with the end marker after
\* its 24 descriptors.
C19_Witness ==
    /\ h_pc = "inflight"
    /\ h_i = PIXEL_COUNT - 1
    /\ renders = 2
    /\ Len(rmt_ram) = ROW_LEN
    /\ rmt_ram[ROW_LEN] = 0
    /\ rmt_ram[ROW_LEN - 1] \in {ZERO_BITS, ONE_BITS}

\* C20: the closure of set_pixel(0, (255, 0, 0)) leaves (0, 255, 0) in slot 0;
\* a frame with that slot 0 is encoded, and row 0 is handed to the
\* transmitter, as 8 ZERO descriptors (green 0), the bits 01001101 of
\* 77 = round(255 * 0.3) (red 255 corrected) and 8 ZERO descriptors (blue 0).
C20_RedPixelExample ==
    [][ LET Z == ZERO_BITS
            O == ONE_BITS
            row0 == <<Z, Z, Z, Z, Z, Z, Z, Z,
                      Z, O, Z, Z, O, O, Z, O,
                      Z, Z, Z, Z, Z, Z, Z, Z>>
        IN  /\ \A p \in Producers :
                  (/\ p_pc[p] = "closure" /\ p_pc'[p] = "signal"
                   /\ p_ops[p] = SetPixelOps(0, <<255, 0, 0>>))
                  => frame_buffer'[0] = <<0, 255, 0>>
            /\ ((h_pc = "encode" /\ h_pc' = "transmit"
                   /\ frame_buffer[0] = <<0, 255, 0>>) =>
                   SubSeq(pulsecodes'[0], 1, 24) = row0)
            /\ ((h_pc' = "inflight" /\ h_i' = 0 /\ snapshot'[0] = <<0, 255, 0>>) =>
                   SubSeq(rmt_ram', 1, 24) = row0)
      ]_vars

\* After set_pixel(0, (255, 0, 0)), row 0 of the next pass is in flight.
C20_Witness ==
    /\ h_pc = "inflight"
    /\ h_i = 0
    /\ frame_buffer[0] = <<0, 255, 0>>
    /\ snapshot[0] = <<0, 255, 0>>
    /\ rmt_ram[10] = ONE_BITS
    /\ rmt_ram[9] = ZERO_BITS

\* C21: after a with_frame_buffer call that sets all 16 pixels to (0,0,0),
\* the pass that reads that frame hands 16 rows to the transmitter, each of
\* 24 ZERO_BITS descriptors before the end marker, then takes the reset
\* delay, and the loop comes back to waiting on the signal.
C21_BlackFrameAllZero ==
    /\ [][ \A p \in Producers :
             ( /\ p_pc[p] = "closure"
               /\ p_ops[p] = << <<"fill", 0, BLACK>> >>
               /\ p_pc'[p] = "signal" )
             => frame_buffer' = ZeroFrame /\ committed' = ZeroFrame ]_vars
    /\ [][ ( h_pc = "encode" /\ h_pc' = "transmit" /\ frame_buffer = ZeroFrame )
           => /\ snapshot' = ZeroFrame
              /\ \A i \in Pixels : \A n \in 1 .. ROW_LEN - 1 :
                    pulsecodes'[i][n] = ZERO_BITS ]_vars
    /\ [][ ( h_pc = "transmit" /\ h_pc' = "inflight" /\ snapshot = ZeroFrame )
           => /\ \A n \in 1 .. ROW_LEN - 1 : rmt_ram'[n] = ZERO_BITS
              /\ rmt_ram'[ROW_LEN] = 0
              /\ sent' = [k \in 1 .. h_i + 1 |-> k - 1] ]_vars
    /\ [][ ( h_pc = "inflight" /\ h_pc' # "inflight" /\ snapshot = ZeroFrame
             /\ h_i = PIXEL_COUNT - 1 )
           => h_pc' = "reset" /\ Len(sent) = PIXEL_COUNT ]_vars
    /\ [][ h_pc = "reset" /\ h_pc' # "reset" => h_pc' = "wait" ]_vars
    /\ \A v \in 1 .. MaxCalls :
          ( version = v /\ committed = ZeroFrame )
          ~> ( rendered >= v /\ h_pc \in {"wait", "parked"} )

C21_Witness ==
    /\ h_pc = "parked"
    /\ version = 2
    /\ committed = ZeroFrame
    /\ snapshot = ZeroFrame
    /\ snap_version = 2
    /\ rendered = 2
    /\ renders >= 2
    /\ Len(sent) = PIXEL_COUNT
    /\ \A n \in 1 .. ROW_LEN - 1 : rmt_ram[n] = ZERO_BITS

\* C24 (as stated): whenever Ws2812b::new has returned, the handler is
\* suspended on the signal with nothing signalled and no producer is between
\* leaving the lock closure and signal(), the staging buffer is the encoding
\* of the frame buffer.
C24_NoStaleFrame ==
    ( /\ m_pc = "done"
      /\ Waiting
      /\ activation_signal # "Signaled"
      /\ \A p \in Producers : p_pc[p] # "signal" )
    => pulsecodes = EncodeFrame(frame_buffer, ZeroCodes)

\* C24 (amended): the same, for the states in which moreover no producer is
\* inside the lock closure, where it may have stored pixels already.
C24_NoStaleFrameOutsideClosure ==
    ( /\ m_pc = "done"
      /\ Waiting
      /\ activation_signal # "Signaled"
      /\ \A p \in Producers : p_pc[p] \notin {"closure", "signal"} )
    => pulsecodes = EncodeFrame(frame_buffer, ZeroCodes)

\* Both producers have returned from a call that wrote, the handler has
\* rendered their frame and is suspended with nothing signalled.
C24_Witness ==
    /\ m_pc = "done"
    /\ h_pc = "parked"
    /\ activation_signal = "Waiting"
    /\ \A p \in Producers : p_pc[p] = "returned"
    /\ version = 2
    /\ frame_buffer[0] = Grb(BLUE)
    /\ frame_buffer[PIXEL_COUNT - 1] = Grb(RED)
    /\ pulsecodes = EncodeFrame(frame_buffer, ZeroCodes)

\* C25: a store of set_pixel(index, rgb) with index in range changes slot
\* index of the frame buffer and nothing else: the other 15 pixels, the
\* staging buffer, the signal and the handler's position, row index and
\* transmitter are as before the store; after its third store slot index
\* holds (g, r, b).
C25_SetPixelFrame ==
    [][ \A p \in Producers :
          ( /\ p_pc[p] = "closure"
            /\ p_k[p] <= Len(p_ops[p])
            /\ p_ops[p][p_k[p]][1] = "set_pixel"
            /\ p_ops[p][p_k[p]][2] \in Pixels
            /\ <<p_k[p], p_ch[p]>>' # <<p_k[p], p_ch[p]>> )
          => LET index == p_ops[p][p_k[p]][2]
                 rgb == p_ops[p][p_k[p]][3]
             IN  /\ \A j \in Pixels \ {index} :
                       frame_buffer'[j] = frame_buffer[j]
                 /\ \A ch \in (1 .. 3) \ {p_ch[p]} :
                       frame_buffer'[index][ch] = frame_buffer[index][ch]
                 /\ frame_buffer'[index][p_ch[p]] = Grb(rgb)[p_ch[p]]
                 /\ (p_ch[p] = 3 => frame_buffer'[index] = Grb(rgb))
                 /\ UNCHANGED <<pulsecodes, h_pc, h_i, activation_signal,
                                rmt_ram, rmt_busy, snapshot, sent>>
      ]_vars

\* set_pixel(15, BLUE) has made its three stores while row 3 of the frame
\* read before is in flight; slot 0 still holds the RED of an earlier call.
C25_Witness ==
    /\ \E p \in Producers :
          /\ p_pc[p] = "closure"
          /\ p_ops[p] = SetPixelOps(PIXEL_COUNT - 1, BLUE)
          /\ p_k[p] = 2
    /\ frame_buffer[PIXEL_COUNT - 1] = Grb(BLUE)
    /\ frame_buffer[0] = Grb(RED)
    /\ h_pc = "inflight"
    /\ h_i = 3
    /\ snapshot[PIXEL_COUNT - 1] = ZeroFrame[0]

\* C26: Ws2812b::new signals once, after it has spawned the handler; as long
\* as no producer has called, the handler makes one pass and no more, that
\* pass encodes the all-zero frame and submits the 16 rows, and once the
\* handler is spawned it ends up suspended on the signal after that one pass.
C26_InitialPass ==
    /\ []( calls = 0 =>
             /\ raised = (IF m_pc = "done" THEN 1 ELSE 0)
             /\ (m_pc # "start" => h_pc # "unspawned")
             /\ renders <= 1
             /\ (renders = 0 => Waiting \/ h_pc = "unspawned")
             /\ (Encoded => /\ snapshot = ZeroFrame
                            /\ pulsecodes = EncodeFrame(ZeroFrame, ZeroCodes))
             /\ (renders = 1 /\ h_pc \in {"reset", "wait", "parked"} =>
                   sent = [k \in 1 .. PIXEL_COUNT |-> k - 1]) )
    /\ ( h_pc # "unspawned" )
       ~> ( calls > 0 \/ ( /\ h_pc = "parked"
                           /\ activation_signal = "Waiting"
                           /\ renders = 1
                           /\ rendered = 0
                           /\ Len(sent) = PIXEL_COUNT ) )

\* No producer has called; the one pass is over and the handler is suspended.
C26_Witness ==
    /\ calls = 0
    /\ m_pc = "done"
    /\ raised = 1
    /\ renders = 1
    /\ h_pc = "parked"
    /\ activation_signal = "Waiting"
    /\ sent = [k \in 1 .. PIXEL_COUNT |-> k - 1]
    /\ pulsecodes = EncodeFrame(ZeroFrame, ZeroCodes)

\* C30: with each of the three corrections of the handler, for every byte b
\* the f32 value round(b * c) is an integer in 0..77, equal to the exact
\* floor(b * m / 2^k + 1/2) for c = m * 2^-k, so `as u8` changes nothing, and
\* the first descriptor the call writes is ZERO_BITS; hence the first
\* descriptor of each of the three channels of an encoded row is ZERO_BITS.
C30_CorrectedByteBelow78 ==
    ( w_pc = "done"
      /\ w_correction \in {CORRECTIONS[1], CORRECTIONS[2], CORRECTIONS[3]} )
    => LET f  == F32Round(F32MulByte(w_byte, w_correction))
           m  == w_correction[1]
           k  == 0 - w_correction[2]
           hi == w_byte * (m \div 256) + (w_byte * (m % 256)) \div 256
           r  == (hi + Pow2(k - 9)) \div Pow2(k - 8)
           row == EncodeRow(<<w_byte, w_byte, w_byte>>, ZeroCodes[0])
       IN  /\ f \in 0 .. 77
           /\ r \in 0 .. 77
           /\ AsU8(f) = f
           /\ CorrectedByte(w_byte, w_correction) = f
           /\ w_out[1] = ZERO_BITS
           /\ \A ch \in 0 .. 2 : row[8 * ch + 1] = ZERO_BITS

\* write_pulse_codes(255, _, 0.3 * 177 / 256) has written the bits of 53,
\* 00110101: the largest value the green channel can take.
C30_Witness ==
    /\ w_pc = "done"
    /\ w_byte = 255
    /\ w_correction = CORRECTIONS[1]
    /\ CorrectedByte(w_byte, w_correction) = 53
    /\ w_out = <<ZERO_BITS, ZERO_BITS, ONE_BITS, ONE_BITS,
                 ZERO_BITS, ONE_BITS, ZERO_BITS, ONE_BITS>>

\* C22: every index the applications pass to set_pixel is in 0..15, so no
\* application call panics: the websocket handler applies a ChangeColor
\* command exactly when the whole payload was consumed and index < 16, and
\* otherwise leaves the frame buffer and the signal as they are, raising
\* nothing; the index i of the main loop of diodes stays in 0..15.
C22_AppsIndexInRange ==
    /\ []( issued \subseteq Pixels /\ d_i \in Pixels /\ ~panicked )
    /\ [][ ( ws_pc = "got" /\ ws_pc' = "next" /\ ws_msg[1] = "ChangeColor" )
           => IF ws_msg[4] /\ ws_msg[2] < 16
              THEN /\ frame_buffer' = [frame_buffer EXCEPT
                                         ![ws_msg[2]] = Grb(ws_msg[3])]
                   /\ raised' = raised + 1
                   /\ activation_signal' = "Signaled"
              ELSE UNCHANGED <<frame_buffer, raised, activation_signal, issued>>
         ]_vars
    /\ [][ ( app = "diodes" /\ issued' # issued )
           => issued' = issued \cup {d_i} /\ d_i' = (d_i + 1) % PIXEL_COUNT
         ]_vars

\* ChangeColor on slots 0 and 15 was applied, then a ChangeColor with index
\* 16 was received and dropped.
C22_Witness ==
    /\ app = "feature-creep"
    /\ ws_pc = "next"
    /\ ws_msg = <<"ChangeColor", 16, RED, TRUE>>
    /\ issued = {0, PIXEL_COUNT - 1}
    /\ frame_buffer[0] = Grb(RED)
    /\ frame_buffer[PIXEL_COUNT - 1] = Grb(BLUE)
    /\ raised = 3

\* C23: the reply to QueryColors has in entry i the (r, g, b) passed to the
\* latest set_pixel(i, rgb) that completed, or (0,0,0) if there was none,
\* uncorrected, and answering the query changes no pixel.
C23_QueryReportsLastWrite ==
    [][ ( ws_pc = "got" /\ ws_pc' = "next" /\ ws_msg[1] = "QueryColors" )
        => /\ ws_res' = last_rgb
           /\ \A i \in Pixels : frame_buffer[i] = Grb(ws_res'[i])
           /\ frame_buffer' = frame_buffer
      ]_vars

\* Slot 0 was set to RED and then to BLUE, slot 15 to BLUE; the reply has
\* BLUE in both and zeros elsewhere.
C23_Witness ==
    /\ app = "feature-creep"
    /\ ws_pc = "next"
    /\ ws_msg = <<"QueryColors", 0, BLACK, TRUE>>
    /\ ws_res[0] = BLUE
    /\ ws_res[PIXEL_COUNT - 1] = BLUE
    /\ ws_res[1] = BLACK
    /\ raised = 5
    /\ frame_buffer[0] = Grb(BLUE)

\* C27: a with_frame_buffer call whose closure only reads leaves the frame
\* buffer as it was and still signals on its return; every signal is
\* followed by a further return of wait() and a whole pass of 16 rows, and a
\* pass over a frame equal to the one encoded before writes the same staging
\* buffer again.
C27_ReadOnlyCallRenders ==
    /\ [][ \A p \in Producers :
             ( p_pc[p] = "closure" /\ p_ops[p] = <<>> )
             => frame_buffer' = frame_buffer ]_vars
    /\ [][ \A p \in Producers :
             ( p_pc[p] = "signal" /\ ~p_single[p] /\ p_pc'[p] = "returned" )
             => /\ raised' = raised + 1
                /\ activation_signal' = "Signaled" ]_vars
    /\ [][ ( h_pc = "encode" /\ h_pc' = "transmit" /\ renders >= 2
             /\ frame_buffer = snapshot )
           => pulsecodes' = pulsecodes ]_vars
    /\ \A n \in 0 .. MaxCalls + 1 :
          ( activation_signal = "Signaled" /\ renders = n )
          ~> ( /\ renders > n
               /\ h_pc \in {"reset", "wait", "parked"}
               /\ sent = [k \in 1 .. PIXEL_COUNT |-> k - 1] )

\* set_pixel(0, RED) and a read-only call have returned; the third pass has
\* submitted its 16 rows, encoding the frame the pass before encoded.
C27_Witness ==
    /\ h_pc = "reset"
    /\ renders = 3
    /\ version = 2
    /\ rendered = 2
    /\ \A p \in Producers : p_pc[p] = "returned"
    /\ frame_buffer[0] = Grb(RED)
    /\ snapshot = frame_buffer
    /\ pulsecodes = EncodeFrame(frame_buffer, ZeroCodes)
    /\ Len(sent) = PIXEL_COUNT

\* C28: a set_pixel or with_frame_buffer call made from inside a
\* with_frame_buffer closure panics at its borrow_mut: the frame buffer is
\* left as the outer closure had it, nothing is signalled, and the RefCell
\* never has more than the one mutable borrow of the outer closure.
C28_ReentrantCallPanics ==
    /\ [][ \A p \in Producers :
             ( /\ p_pc[p] = "closure"
               /\ p_k[p] <= Len(p_ops[p])
               /\ p_ops[p][p_k[p]][1] = "with_frame_buffer" )
             => /\ panicked'
                /\ borrow = 0 - 1
                /\ UNCHANGED <<frame_buffer, borrow, raised, activation_signal,
                               committed, version>> ]_vars
    /\ []( borrow \in {0 - 1, 0, 1} )
    /\ []( \A p \in Producers :
             ( p_pc[p] = "closure" /\ p_k[p] > 1
               /\ p_ops[p][1] = <<"set_pixel", 0, BLUE>> )
             => frame_buffer[0] = Grb(BLUE) )

\* The closure has stored BLUE in slot 0 and then called set_pixel(0, RED)
\* on a copy of the handle: the firmware has panicked, slot 0 holds BLUE.
C28_Witness ==
    /\ panicked
    /\ borrow = 0 - 1
    /\ \E p \in Producers :
          /\ p_pc[p] = "closure"
          /\ p_k[p] = 2
          /\ p_ops[p][2] = <<"with_frame_buffer", 0, RED>>
    /\ frame_buffer[0] = Grb(BLUE)
    /\ version = 1

\* C29: the handler is spawned at most once, so there is one frame buffer,
\* one staging buffer and one render task: a second call of Ws2812b::new
\* panics when it takes the statics, before it configures a channel, spawns
\* or signals, and the calls made through any copy of the handle signal the
\* one activation signal.
C29_SingleInstance ==
    /\ []( spawned <= 1 /\ (spawned = 1 <=> h_pc # "unspawned")
           /\ (spawned = 1 <=> taken) )
    /\ [][ ( m_pc = "start" /\ taken )
           => m_pc' = "start" /\ spawned' = spawned /\ taken' ]_vars
    /\ [][ ( taken /\ New_spawn )
           => /\ panicked'
              /\ UNCHANGED <<spawned, h_pc, h_i, frame_buffer, pulsecodes,
                             activation_signal, raised, m_pc>> ]_vars
    /\ [][ \A p \in Producers :
             ( p_pc[p] = "signal" /\ p_pc'[p] = "returned" )
             => activation_signal' = "Signaled" /\ raised' = raised + 1 ]_vars

\* Both producers have set slot 0 through their copies of the handle and the
\* handler has rendered it; a second Ws2812b::new has panicked.
C29_Witness ==
    /\ panicked
    /\ m_pc = "start"
    /\ taken
    /\ spawned = 1
    /\ \A p \in Producers : p_pc[p] = "returned"
    /\ version = 2
    /\ rendered = 2
    /\ frame_buffer[0] = Grb(RED)

\* C31: a task is in a phase of a transaction only while it holds the
\* Mutex, from the start of the transaction to its end, suspensions
\* included; so at most one transaction is in progress whatever the
\* interleaving, the phases the bus carries between the start and the end of
\* a transaction are all of that transaction, and the read phase of a
\* write_read follows its write phase with nothing of another task between.
C31_TransactionsSerialised ==
    /\ []( /\ Cardinality(bus_active) <= 1
           /\ bus_active = { t \in I2cTasks : t_pc[t] \in {"write", "read"} }
           /\ (bus_active # {} => i2c_locked)
           /\ \A t \in I2cTasks :
                 ( t_pc[t] = "read" /\ t_op[t] = "write_read" )
                 => /\ bus_log # <<>>
                    /\ bus_log[Len(bus_log)] = <<t, "write_read", "write">>
           /\ \A i \in 1 .. Len(bus_log) :
                 ( bus_log[i][2] = "write_read" /\ bus_log[i][3] = "read" )
                 => /\ i > 1
                    /\ bus_log[i - 1] = <<bus_log[i][1], "write_read", "write">> )
    /\ [][ \A t \in I2cTasks :
             ( t \in bus_active /\ i2c_locked' # i2c_locked )
             => t \notin bus_active' ]_vars
    /\ [][ \A t \in I2cTasks :
             ( t \in bus_active /\ bus_log' # bus_log )
             => bus_log'[Len(bus_log')][1] = t ]_vars

\* Task 1 is suspended in the read phase of its write_read, holding the
\* Mutex; task 2 has called meanwhile, found the Mutex locked and waits.
C31_Witness ==
    /\ t_pc[1] = "read"
    /\ t_op[1] = "write_read"
    /\ t_pc[2] = "parked"
    /\ i2c_waker = 2
    /\ i2c_locked
    /\ bus_active = {1}
    /\ Len(bus_log) = 2
    /\ bus_log[1][1] = 2
    /\ bus_log[2] = <<1, "write_read", "write">>

====
